---- MODULE Spec2Model ----
(***************************************************************************)
(* A model of github.com/solarlune/routine: the Routine (scheduler), its   *)
(* Blocks (playheads) and the Function / Label actions of package actions. *)
(*                                                                         *)
(* Routine.Update is modelled at the granularity of Block.update calls:    *)
(* the action Update is the first loop of Routine.Update (the snapshot of  *)
(* the activity flags) and each Poll step is one invocation of             *)
(* Block.update, the recursive call at its end being the next Poll step of *)
(* the same Block.  cursor is the position of the second loop.             *)
(***************************************************************************)
EXTENDS Integers, Sequences, FiniteSets, TLC

\* ------------------------------------------------------------- bounds

\* The longest action list handed to Define.
MaxLen == 2
\* The largest value Block.currentFrame takes: an action idles at most this often in a row.
MaxFrame == 1
\* A Function returns FlowNext only while its Block has been polled at most this
\* often in the running Update.
MaxPolls == 2
\* The most actions NewCollection is called with.
MaxColl == 2
\* The most Define calls made with one ID (in the runs that count them).
MaxDefs == 2
\* The longest Duration of a Wait or TimingPair, in ticks of the clock.
MaxWait == 2
\* The latest time the clock shows.
MaxClock == 3
\* The most options a Gate is made with, and the most actions an option is made with.
MaxOpts == 2
MaxNested == 2
\* The most TimingPairs a Timing is made with.
MaxPairs == 2

BlockIDs == {"x", "y"}
\* The labels Define places in action lists, and the labels JumpTo is asked for.
DefLabels == {"a"}
JumpLabels == {"a", "b"}

\* ------------------------------------------------------------- Flow

FlowIdle == 0
FlowNext == 1
FlowFinish == 2

\* ------------------------------------------------------------- time

\* The zero time.Time, before every time the clock shows.
ZeroTime == -1
\* time.Time.After
After(t, u) == t > u
\* time.Time.Add
Add(t, d) == t + d
\* time.Time.IsZero
IsZero(t) == t = ZeroTime

\* No Timing made.
NoTiming == [pairs |-> <<>>, index |-> 0]

\* ------------------------------------------------------------- actions

\* actions.NewFunction(f): Init does nothing (InitFunc is nil), Poll runs f.
NewFunction == [kind |-> "Function", Label |-> "none"]
\* actions.NewLabel(id): Init does nothing, Poll returns FlowNext, ID() is id.
NewLabel(id) == [kind |-> "Label", Label |-> id]

\* The loop of Routine.Define, NewCollection and NewGateOption over the actions handed
\* in, from the i-th on: the actions of a Collection are appended in its place, any
\* other action is appended itself.
RECURSIVE AppendActions(_, _, _)
AppendActions(Actions, i, newActions) ==
    IF i > Len(Actions) THEN newActions
    ELSE AppendActions(Actions, i + 1,
                       IF Actions[i].kind = "Collection"
                       THEN newActions \o Actions[i].actions
                       ELSE Append(newActions, Actions[i]))

\* The loop as it would be if it appended every action itself.
NewActionsKept(Actions) == Actions

\* newActions when the loop is over.
NewActions(Actions) == AppendActions(Actions, 1, <<>>)

\* actions.NewCollection(actions...): Init does nothing, Poll returns FlowNext,
\* Actions() is the list built.
NewCollection(actions) ==
    [kind |-> "Collection", Label |-> "none", actions |-> NewActions(actions)]
\* Collection.AddAction
AddAction(q, action) == [q EXCEPT !.actions = Append(@, action)]
\* actions.NewGateOption(checkFunc, Actions...): checkFunc is "nil" or "func".
NewGateOption(checkFunc, Actions) ==
    [CheckFunc |-> checkFunc, Active |-> FALSE, actions |-> NewActions(Actions), Index |-> 0]

\* actions.NewWait(duration)
NewWait(duration) ==
    [kind |-> "Wait", Label |-> "none", Duration |-> duration, targetTime |-> ZeroTime]
\* Wait.Init at the time now
WaitInitNone(w, now) == w
WaitInit(w, now) == [w EXCEPT !.targetTime = Add(now, w.Duration)]
\* Wait.Poll as it would be if it advanced at the target time already.
WaitPollAtTarget(w, now) == IF now >= w.targetTime THEN FlowNext ELSE FlowIdle
\* Wait.Poll at the time now
WaitPoll(w, now) == IF After(now, w.targetTime) THEN FlowNext ELSE FlowIdle

\* actions.NewGate(entries...), with SetOnIdle and SetOnChoose called on it:
\* ActiveEntry is the position in Options of the entry pointed to, 0 for nil.
NewGate(entries) ==
    [kind |-> "Gate", Label |-> "none", Options |-> entries, ActiveEntry |-> 0]

\* The options whose first action Gate.Init calls Init on.
GateInits(c) == {o \in 1..Len(c.Options) : Len(c.Options[o].actions) > 0}
\* Gate.Init as it would be if it left the active entry active.
GateInitKept(c) == c
\* Gate.Init (the Init of the nested Functions changes nothing)
GateInit(c) == [c EXCEPT !.ActiveEntry = 0]

\* GateOption.Poll as it would be if a FlowFinish of the nested action were not
\* passed on.
GateOptionPollNoFinish(g, result) ==
    IF Len(g.actions) = 0
    THEN [g |-> g, flow |-> FlowNext, polled |-> -1, inits |-> <<>>]
    ELSE LET more == g.Index + 1 < Len(g.actions)
             done == result = FlowNext /\ ~more
         IN [g |-> IF result = FlowNext
                   THEN [g EXCEPT !.Index = IF more THEN g.Index + 1 ELSE 0]
                   ELSE g,
             flow |-> IF done THEN FlowNext ELSE FlowIdle,
             polled |-> g.Index,
             inits |-> IF result = FlowNext
                       THEN <<IF more THEN g.Index + 1 ELSE 0>> ELSE <<>>]

\* GateOption.Poll, result being what the nested action polled returns: the option
\* after it, the Flow returned, the index of the nested action polled (-1: none) and
\* the indices of the nested actions Init was called on.
GateOptionPoll(g, result) ==
    IF Len(g.actions) = 0
    THEN [g |-> g, flow |-> FlowNext, polled |-> -1, inits |-> <<>>]
    ELSE LET more == g.Index + 1 < Len(g.actions)
             done == result = FlowNext /\ ~more
         IN [g |-> IF result = FlowNext
                   THEN [g EXCEPT !.Index = IF more THEN g.Index + 1 ELSE 0]
                   ELSE g,
             flow |-> IF result = FlowFinish THEN FlowFinish
                      ELSE IF done THEN FlowNext ELSE FlowIdle,
             polled |-> g.Index,
             inits |-> IF result = FlowNext
                       THEN <<IF more THEN g.Index + 1 ELSE 0>> ELSE <<>>]

\* The loop of Gate.Poll as it would be if it called every CheckFunc and took the
\* last entry that matches.
RECURSIVE GateScanAll(_, _, _)
GateScanAll(c, truth, i) ==
    IF i > Len(c.Options) THEN [entry |-> 0, evald |-> {}]
    ELSE LET r == GateScanAll(c, truth, i + 1)
             e == IF c.Options[i].CheckFunc = "nil" THEN {} ELSE {i}
         IN IF r.entry = 0 /\ (c.Options[i].CheckFunc = "nil" \/ truth[i])
            THEN [entry |-> i, evald |-> r.evald \cup e]
            ELSE [r EXCEPT !.evald = @ \cup e]
\* The loop of Gate.Poll over the entries from the i-th on, truth[o] being what the
\* CheckFunc of entry o returns when called: the entry made active (0: none) and the
\* entries whose CheckFunc was called.
RECURSIVE GateScan(_, _, _)
GateScan(c, truth, i) ==
    IF i > Len(c.Options) THEN [entry |-> 0, evald |-> {}]
    ELSE IF c.Options[i].CheckFunc = "nil" THEN [entry |-> i, evald |-> {}]
    ELSE IF truth[i] THEN [entry |-> i, evald |-> {i}]
    ELSE LET r == GateScan(c, truth, i + 1) IN [r EXCEPT !.evald = @ \cup {i}]

\* What Gate.Poll does when no entry is active: onIdle, the loop, onChoose.
GatePollChoose(c, truth) ==
    LET s == GateScan(c, truth, 1)
    IN [gate |-> [c EXCEPT !.ActiveEntry = s.entry], flow |-> FlowIdle,
        evald |-> s.evald, idle |-> 1, choose |-> IF s.entry # 0 THEN 1 ELSE 0,
        o |-> 0, j |-> -1, inits |-> <<>>]
\* What Gate.Poll does when the entry active is polled.
GatePollEntry(c, result) ==
    LET r == GateOptionPoll(c.Options[c.ActiveEntry], result)
    IN [gate |-> [c EXCEPT !.Options[c.ActiveEntry] = r.g], flow |-> r.flow,
        evald |-> {}, idle |-> 0, choose |-> 0,
        o |-> IF r.polled = -1 THEN 0 ELSE c.ActiveEntry, j |-> r.polled,
        inits |-> r.inits]
\* Gate.Poll as it would be if it ran its loop whether an entry is active or not.
GatePollRechecked(c, truth, result) ==
    LET r == GatePollChoose(c, truth)
    IN IF c.ActiveEntry # 0
       THEN [GatePollEntry(c, result) EXCEPT !.evald = r.evald]
       ELSE r
\* Gate.Poll: the Gate after it, the Flow returned, the entries whose CheckFunc was
\* called, the calls of onIdle and onChoose, the nested action polled (action j of
\* entry o; o = 0: none) and the nested actions of that entry Init was called on.
GatePoll(c, truth, result) ==
    IF c.ActiveEntry # 0 THEN GatePollEntry(c, result) ELSE GatePollChoose(c, truth)

\* A TimingPair with the Duration given (and a Function)
TimingPair(duration) == [Duration |-> duration, targetTime |-> ZeroTime]
\* actions.NewTiming(timingPairs)
NewTiming(timingPairs) == [pairs |-> timingPairs, index |-> 0]
\* Timing.Init
TimingInit(t) == [t EXCEPT !.index = 0]
\* Timing.Poll as it would be if it called the Function at the target time already.
TimingPollAtTarget(t, now) ==
    LET i == t.index + 1
        target == IF IsZero(t.pairs[i].targetTime) THEN Add(now, t.pairs[i].Duration)
                  ELSE t.pairs[i].targetTime
        last == t.index + 1 >= Len(t.pairs)
    IN [timing |-> [pairs |-> [t.pairs EXCEPT ![i].targetTime = target],
                    index |-> IF now >= target
                              THEN IF last THEN 0 ELSE t.index + 1
                              ELSE t.index],
        called |-> IF now >= target THEN t.index ELSE -1,
        flow |-> IF now >= target /\ last THEN FlowNext ELSE FlowIdle]
\* Timing.Poll at the time now: the Timing after it, the index of the pair whose
\* Function is called (-1: none) and the Flow returned.
TimingPoll(t, now) ==
    LET i == t.index + 1
        target == IF IsZero(t.pairs[i].targetTime) THEN Add(now, t.pairs[i].Duration)
                  ELSE t.pairs[i].targetTime
        last == t.index + 1 >= Len(t.pairs)
    IN [timing |-> [pairs |-> [t.pairs EXCEPT ![i].targetTime = target],
                    index |-> IF After(now, target)
                              THEN IF last THEN 0 ELSE t.index + 1
                              ELSE t.index],
        called |-> IF After(now, target) THEN t.index ELSE -1,
        flow |-> IF After(now, target) /\ last THEN FlowNext ELSE FlowIdle]

ActionKinds == {NewFunction} \cup {NewLabel(l) : l \in DefLabels}
ActionLists == UNION {[1..n -> ActionKinds] : n \in 1..MaxLen}
\* The Block whose history hist keeps.
Watched == "x"
\* The action lists Define is called with: any list for the Block watched, and for the
\* Block beside it a single Function, which may call anything and return anything.
ListsOf(id) == IF id = Watched THEN ActionLists ELSE {<<NewFunction>>}

\* The Collections handed in: created with up to MaxColl plain actions, created with
\* a Collection among them, or given an action or a Collection with AddAction later.
PlainCollections ==
    {NewCollection(l) : l \in UNION {[1..n -> ActionKinds] : n \in 0..MaxColl}}
Collections ==
    PlainCollections
    \cup {NewCollection(<<NewCollection(<<a>>), NewFunction>>) : a \in ActionKinds}
    \cup {AddAction(NewCollection(<<>>), a) : a \in ActionKinds}
    \cup {AddAction(NewCollection(<<NewFunction>>), NewCollection(<<a>>)) : a \in ActionKinds}
\* The action lists with Collections: at most one action, then possibly a Collection,
\* then possibly a Function.
ShortLists == UNION {[1..n -> ActionKinds] : n \in 0..1}
ArgLists ==
    ShortLists \cup {pre \o <<c>> \o post : pre \in ShortLists, c \in Collections,
                                            post \in {<<>>, <<NewFunction>>}}
\* The action lists with a Wait: possibly a Function, a Wait, possibly a Function.
WaitLists ==
    {pre \o <<NewWait(d)>> \o post : pre \in {<<>>, <<NewFunction>>}, d \in 0..MaxWait,
                                     post \in {<<>>, <<NewFunction>>}}
\* The lists of n Functions.
Functions(n) == [k \in 1..n |-> NewFunction]
\* The Gates: of 1 to MaxOpts options, with and without a CheckFunc, each of as many
\* Functions (0 to MaxNested).
Gates ==
    {NewGate([o \in DOMAIN cf |-> NewGateOption(cf[o], Functions(n))]) :
        cf \in UNION {[1..m -> {"nil", "func"}] : m \in 1..MaxOpts}, n \in 0..MaxNested}
\* The action lists with a Gate: a Gate, alone or before or after a Function.
GateLists ==
    {<<c>> : c \in Gates} \cup {<<c, NewFunction>> : c \in Gates}
    \cup {<<NewFunction, c>> : c \in Gates}
\* What Define is called with in the runs that define with Collections.
ArgsOf(id) == IF id = Watched THEN ArgLists ELSE {<<NewFunction>>}

\* What one run of a Function's PollFunc does: at most one call of the Block /
\* Routine API (api, with its argument i, label or ids), then the Flow it returns.
PollFunc(api, i, label, ids, flow) ==
    [api |-> api, i |-> i, label |-> label, ids |-> ids, flow |-> flow]

Flows == {FlowIdle, FlowNext, FlowFinish}
\* The IDs handed to Routine.Run / Pause / Stop / Restart: none (every Block) or one.
IdArgs == {{}} \cup {{id} : id \in BlockIDs}
RoutineApis == {"Run", "Pause", "Stop", "Restart", "Switch"}

PollFuncs ==
    {PollFunc("none", 0, "none", {}, fl) : fl \in Flows}
    \cup {PollFunc("SetIndex", i, "none", {}, fl) : i \in -1..MaxLen, fl \in Flows}
    \cup {PollFunc("JumpTo", 0, l, {}, fl) : l \in JumpLabels, fl \in Flows}
    \cup {PollFunc(a, 0, "none", S, fl) : a \in RoutineApis, S \in IdArgs, fl \in Flows}

\* The Function actions package actions builds.
NewJumpTo(label) == PollFunc("JumpTo", 0, label, {}, FlowNext)
NewSetIndex(i) == PollFunc("SetIndex", i, "none", {}, FlowNext)
NewLoop == PollFunc("SetIndex", 0, "none", {}, FlowNext)
NewFinish == PollFunc("none", 0, "none", {}, FlowFinish)
NewRunBlock(ids) == PollFunc("Run", 0, "none", ids, FlowNext)
NewPauseBlock(ids) == PollFunc("Pause", 0, "none", ids, FlowNext)
NewStopBlock(ids) == PollFunc("Stop", 0, "none", ids, FlowNext)
NewSwitchBlock(ids) == PollFunc("Switch", 0, "none", ids, FlowNext)
\* Label.Poll
LabelPoll == PollFunc("none", 0, "none", {}, FlowNext)

\* ------------------------------------------------------------- state

VARIABLES
    blocks,   \* Routine.Blocks: the sequence of Block records
    cursor,   \* 0 outside Update; inside it, the position in Blocks of the Block stepped next
    initLog,  \* the Init calls of the last step on actions of the Block watched, in
              \* order: <<Block ID, action index>>
    polls,    \* the Block.update invocations so far, in the running Update, on the Block
              \* at the cursor (they follow one another)
    hist,     \* what has happened to the Block watched (observation only)
    watch,    \* which part of hist this run keeps
    clock,    \* what time.Now() returns
    timing    \* the Timing the program polls (it is not an Action: Init takes no Block)

vars == <<blocks, cursor, initLog, polls, hist, watch, clock, timing>>

\* The state the pure operators below work on: the Blocks, the Init calls made and
\* the time.
St(Blocks, inits) == [Blocks |-> Blocks, inits |-> inits, now |-> clock]

\* The kind of the action of b at index i (none when b has no such action).
KindAt(b, i) == IF i \in 0..(Len(b.Actions) - 1) THEN b.Actions[i + 1].kind ELSE "none"

\* b.Actions[i].Init(b): Function.Init with a nil InitFunc, Label.Init and
\* Collection.Init change nothing, Wait.Init sets the target time, Gate.Init leaves
\* no entry active; the call is logged when b is the Block watched.
InitAction(st, k, i) ==
    LET s1 == IF KindAt(st.Blocks[k], i) = "Wait"
              THEN [st EXCEPT !.Blocks[k].Actions[i + 1] = WaitInit(@, st.now)]
              ELSE IF KindAt(st.Blocks[k], i) = "Gate"
              THEN [st EXCEPT !.Blocks[k].Actions[i + 1] = GateInit(@)]
              ELSE st
    IN IF st.Blocks[k].ID = Watched
       THEN [s1 EXCEPT !.inits = Append(@, <<st.Blocks[k].ID, i>>)]
       ELSE s1

\* Block.SetIndex as it would be without its indexChanged flag.
SetIndexUnflagged(st, k, index) ==
    LET b == st.Blocks[k]
        lo == IF index < 0 THEN 0 ELSE index
        ix == IF lo > Len(b.Actions) - 1 THEN Len(b.Actions) - 1 ELSE lo
    IN IF b.index # ix
       THEN LET moved == [st EXCEPT !.Blocks[k].index = ix]
                inited == InitAction(moved, k, ix)
            IN [inited EXCEPT !.Blocks[k].currentFrame = 0]
       ELSE st

\* Block.SetIndex as it would be if it took the index as given.
SetIndexUnclamped(st, k, index) ==
    LET b == st.Blocks[k]
    IN IF b.index # index
       THEN LET moved == [st EXCEPT !.Blocks[k].index = index]
                inited == InitAction(moved, k, index)
            IN [inited EXCEPT !.Blocks[k].currentFrame = 0,
                              !.Blocks[k].indexChanged =
                                  IF b.currentlyActive THEN TRUE ELSE @]
       ELSE st

\* Block.SetIndex
SetIndex(st, k, index) ==
    LET b == st.Blocks[k]
        lo == IF index < 0 THEN 0 ELSE index
        ix == IF lo > Len(b.Actions) - 1 THEN Len(b.Actions) - 1 ELSE lo
    IN IF b.index # ix
       THEN LET moved == [st EXCEPT !.Blocks[k].index = ix]
                inited == InitAction(moved, k, ix)
            IN [inited EXCEPT !.Blocks[k].currentFrame = 0,
                              !.Blocks[k].indexChanged =
                                  IF b.currentlyActive THEN TRUE ELSE @]
       ELSE st

\* The indices (from 0) of the actions of b that are ActionIdentifiable with ID() = labelID.
LabelMatches(b, labelID) ==
    {i \in 0..(Len(b.Actions) - 1) :
        b.Actions[i + 1].kind = "Label" /\ b.Actions[i + 1].Label = labelID}

\* The loop of Block.JumpTo from index i on: the index at which it returns, or -1.
RECURSIVE JumpToScan(_, _, _)
JumpToScan(b, labelID, i) ==
    IF i > Len(b.Actions) - 1 THEN -1
    ELSE IF b.Actions[i + 1].kind = "Label" /\ b.Actions[i + 1].Label = labelID THEN i
    ELSE JumpToScan(b, labelID, i + 1)

\* Block.JumpTo as it would return were the scan to stop at the last match.
JumpToLast(b, labelID) ==
    IF LabelMatches(b, labelID) = {} THEN -1
    ELSE CHOOSE i \in LabelMatches(b, labelID) :
            \A j \in LabelMatches(b, labelID) : i >= j

\* What Block.JumpTo returns.
JumpToResult(b, labelID) == JumpToScan(b, labelID, 0)

\* Block.JumpTo as it would be if it called SetIndex with whatever its scan returned.
JumpToClamped(st, k, labelID) == SetIndex(st, k, JumpToResult(st.Blocks[k], labelID))

\* Block.JumpTo
JumpTo(st, k, labelID) ==
    IF JumpToResult(st.Blocks[k], labelID) = -1 THEN st
    ELSE SetIndex(st, k, JumpToResult(st.Blocks[k], labelID))

\* Block.Run as it would be if it also let the running Update step the Block.
BlockRunNow(st, k) ==
    [st EXCEPT !.Blocks[k].active = TRUE, !.Blocks[k].currentlyActive = TRUE]

\* Block.Run
BlockRun(st, k) == [st EXCEPT !.Blocks[k].active = TRUE]

\* Block.Pause as it would be if it also kept the running Update from stepping the Block.
BlockPauseNow(st, k) ==
    [st EXCEPT !.Blocks[k].active = FALSE, !.Blocks[k].currentlyActive = FALSE]

\* Block.Pause as it would be if it also set the index to 0.
BlockPauseAtZero(st, k) == [st EXCEPT !.Blocks[k].active = FALSE, !.Blocks[k].index = 0]

\* Block.Pause
BlockPause(st, k) == [st EXCEPT !.Blocks[k].active = FALSE]

\* Block.Restart as it would be without setting the index to -1 first.
BlockRestartIfMoved(st, k) == SetIndex(st, k, 0)
\* Block.Restart
BlockRestart(st, k) == SetIndex([st EXCEPT !.Blocks[k].index = -1], k, 0)

\* Block.Stop
BlockStop(st, k) == BlockRestart(BlockPause(st, k), k)

BlockOp(op, st, k) ==
    CASE op = "Run" -> BlockRun(st, k)
      [] op = "Pause" -> BlockPause(st, k)
      [] op = "Stop" -> BlockStop(st, k)
      [] op = "Restart" -> BlockRestart(st, k)

\* The loops of Routine.Run / Pause / Stop / Restart: every Block when no ID is
\* given, otherwise the Block of each ID given (IDs are unique in Blocks).
RECURSIVE ForBlocks(_, _, _, _)
ForBlocks(op, st, ids, k) ==
    IF k > Len(st.Blocks) THEN st
    ELSE ForBlocks(op,
                   IF ids = {} \/ st.Blocks[k].ID \in ids THEN BlockOp(op, st, k) ELSE st,
                   ids, k + 1)

\* Routine.Run
RoutineRun(st, ids) == ForBlocks("Run", st, ids, 1)
\* Routine.Pause
RoutinePause(st, ids) == ForBlocks("Pause", st, ids, 1)
\* Routine.Stop
RoutineStop(st, ids) == ForBlocks("Stop", st, ids, 1)
\* Routine.Restart
RoutineRestart(st, ids) == ForBlocks("Restart", st, ids, 1)

\* The removal loop of Routine.Define as it would be if it removed nothing.
RemoveNothing(arr, n, i, id) == arr

\* The removal loop of Routine.Define: it ranges over the slice as it was (arr, whose
\* elements are read as the loop reaches them) while r.Blocks, of length n, loses the
\* Blocks whose ID is id; the elements behind a removed one move up by one.
RECURSIVE RemoveLoop(_, _, _, _)
RemoveLoop(arr, n, i, id) ==
    IF i > Len(arr) THEN SubSeq(arr, 1, n)
    ELSE IF arr[i].ID = id /\ i <= n
         THEN RemoveLoop([j \in 1..Len(arr) |->
                             IF j >= i /\ j < n THEN arr[j + 1] ELSE arr[j]],
                         n - 1, i + 1, id)
         ELSE RemoveLoop(arr, n, i + 1, id)

\* Define as it would be if the Block defined first were made active.
RoutineDefineFirstActive(st, id, Actions, gen) ==
    LET newBlock == [ID |-> id, Actions |-> NewActions(Actions), index |-> 0,
                     active |-> st.Blocks = <<>>, currentlyActive |-> FALSE,
                     indexChanged |-> FALSE, currentFrame |-> 0, gen |-> gen]
    IN [st EXCEPT !.Blocks =
            Append(RemoveLoop(st.Blocks, Len(st.Blocks), 1, id), newBlock)]
\* Define as it would be if the new Block were put before the others.
RoutineDefineFront(st, id, Actions, gen) ==
    LET newBlock == [ID |-> id, Actions |-> NewActions(Actions), index |-> 0,
                     active |-> FALSE, currentlyActive |-> FALSE,
                     indexChanged |-> FALSE, currentFrame |-> 0, gen |-> gen]
    IN [st EXCEPT !.Blocks =
            <<newBlock>> \o RemoveLoop(st.Blocks, Len(st.Blocks), 1, id)]

\* Routine.Define: the new Block is inactive, at index 0, and nothing is Init'd.
\* gen tells the Block allocated (&Block{...}) from those allocated before.
RoutineDefine(st, id, Actions, gen) ==
    LET newBlock == [ID |-> id, Actions |-> NewActions(Actions), index |-> 0,
                     active |-> FALSE, currentlyActive |-> FALSE,
                     indexChanged |-> FALSE, currentFrame |-> 0, gen |-> gen]
    IN [st EXCEPT !.Blocks =
            Append(RemoveLoop(st.Blocks, Len(st.Blocks), 1, id), newBlock)]

\* No Block (nil).
NoBlock == [ID |-> "nil", gen |-> -1]

\* Routine.BlockByID: the first Block of Blocks, from the k-th on, whose ID is id.
RECURSIVE BlockByIDFrom(_, _, _)
BlockByIDFrom(Blocks, id, k) ==
    IF k > Len(Blocks) THEN NoBlock
    ELSE IF Blocks[k].ID = id THEN Blocks[k]
    ELSE BlockByIDFrom(Blocks, id, k + 1)

BlockByID(Blocks, id) == BlockByIDFrom(Blocks, id, 1)

\* What the PollFunc f of the action polled in Blocks[k] does before it returns.
PollEffect(st, k, f) ==
    CASE f.api = "none" -> st
      [] f.api = "SetIndex" -> SetIndex(st, k, f.i)
      [] f.api = "JumpTo" -> JumpTo(st, k, f.label)
      [] f.api = "Run" -> RoutineRun(st, f.ids)
      [] f.api = "Pause" -> RoutinePause(st, f.ids)
      [] f.api = "Stop" -> RoutineStop(st, f.ids)
      [] f.api = "Restart" -> RoutineRestart(st, f.ids)
      [] f.api = "Switch" -> RoutineRun(RoutineStop(st, f.ids), f.ids)

\* Case FlowNext as it would be if it incremented the index whatever indexChanged is.
UpdateNextAlways(st, k) ==
    LET b == st.Blocks[k]
        ix == b.index + 1
        wrap == ix > Len(b.Actions) - 1
        s1 == [st EXCEPT !.Blocks[k].index = IF wrap THEN 0 ELSE ix,
                         !.Blocks[k].active = IF wrap THEN FALSE ELSE @,
                         !.Blocks[k].currentlyActive = IF wrap THEN FALSE ELSE @]
        s2 == InitAction(s1, k, s1.Blocks[k].index)
    IN [s2 EXCEPT !.Blocks[k].currentFrame = 0]

\* Case FlowNext as it would be if wrapping to 0 left the Block active.
UpdateNextStaysActive(st, k) ==
    LET b == st.Blocks[k]
        ix == IF ~b.indexChanged THEN b.index + 1 ELSE b.index
        wrap == ix > Len(b.Actions) - 1
        s1 == [st EXCEPT !.Blocks[k].index = IF wrap THEN 0 ELSE ix]
        s2 == InitAction(s1, k, s1.Blocks[k].index)
    IN [s2 EXCEPT !.Blocks[k].currentFrame = 0]

\* Block.update, case FlowNext (without the call of update at its end).
UpdateNext(st, k) ==
    LET b == st.Blocks[k]
        ix == IF ~b.indexChanged THEN b.index + 1 ELSE b.index
        wrap == ix > Len(b.Actions) - 1
        s1 == [st EXCEPT !.Blocks[k].index = IF wrap THEN 0 ELSE ix,
                         !.Blocks[k].active = IF wrap THEN FALSE ELSE @,
                         !.Blocks[k].currentlyActive = IF wrap THEN FALSE ELSE @]
        s2 == InitAction(s1, k, s1.Blocks[k].index)
    IN [s2 EXCEPT !.Blocks[k].currentFrame = 0]

\* Case FlowFinish as it would be if it left the Block active.
UpdateFinishStaysActive(st, k) ==
    LET s1 == [st EXCEPT !.Blocks[k].index = 0]
        s2 == InitAction(s1, k, 0)
    IN [s2 EXCEPT !.Blocks[k].currentFrame = 0]

\* Block.update, case FlowFinish.
UpdateFinish(st, k) ==
    LET s1 == [st EXCEPT !.Blocks[k].index = 0,
                         !.Blocks[k].active = FALSE,
                         !.Blocks[k].currentlyActive = FALSE]
        s2 == InitAction(s1, k, 0)
    IN [s2 EXCEPT !.Blocks[k].currentFrame = 0]

\* Case FlowIdle as it would be if it called Init whatever indexChanged is.
UpdateIdleAnew(st, k) ==
    [InitAction(st, k, st.Blocks[k].index) EXCEPT !.Blocks[k].currentFrame = 0]

\* Block.update, case FlowIdle.
UpdateIdle(st, k) ==
    IF st.Blocks[k].indexChanged
    THEN [InitAction(st, k, st.Blocks[k].index) EXCEPT !.Blocks[k].currentFrame = 0]
    ELSE st

\* Block.update up to its Poll: the flag is cleared and the action polled.
UpdatePoll(st, k, f) ==
    PollEffect([st EXCEPT !.Blocks[k].indexChanged = FALSE], k, f)

\* Block.update from the return of Poll on as it would be without currentFrame++.
UpdateFlowUncounted(polled, k, flow) ==
    CASE flow = FlowNext -> UpdateNext(polled, k)
      [] flow = FlowFinish -> UpdateFinish(polled, k)
      [] flow = FlowIdle -> UpdateIdle(polled, k)

\* Block.update from the return of Poll on (polled: the state then; flow: the Flow
\* returned), without the call of update at the end of case FlowNext.
UpdateFlow(polled, k, flow) ==
    LET counted == [polled EXCEPT !.Blocks[k].currentFrame = @ + 1]
    IN CASE flow = FlowNext -> UpdateNext(counted, k)
         [] flow = FlowFinish -> UpdateFinish(counted, k)
         [] flow = FlowIdle -> UpdateIdle(counted, k)

\* update calling itself whatever the Flow polled.
UpdateAgainAlways(b, f) == b.active /\ b.currentlyActive

\* update never calling itself: one poll per Block and Update.
UpdateOnce(b, f) == FALSE

\* Whether case FlowNext calls update again and that call gets past its guard.
UpdateAgain(b, f) == f.flow = FlowNext /\ b.active /\ b.currentlyActive

\* The first loop of Routine.Update.
Snapshot(Blocks) ==
    [k \in 1..Len(Blocks) |-> [Blocks[k] EXCEPT !.currentlyActive = Blocks[k].active]]

\* The second loop of Routine.Update: the next position, from k on, whose Block
\* update does not return from at once; 0 when the loop is over.
NextActive(Blocks, k) ==
    IF \E j \in k..Len(Blocks) : Blocks[j].currentlyActive
    THEN CHOOSE j \in k..Len(Blocks) :
            /\ Blocks[j].currentlyActive
            /\ \A i \in k..(j - 1) : ~Blocks[i].currentlyActive
    ELSE 0

\* ------------------------------------------------------------- observation

\* hist records what has happened to the Block Watched; no operator above reads it.
\* Kept when watch = "flow":
\*   pend        the index a SetIndex / JumpTo made in the Block's own Poll moved the
\*               playhead to (that Poll returning Idle or Next), until the next poll of
\*               the Block or a call from outside that repositions it; else -1
\*   pendBy      the call that set pend
\*   curInit     Init has been called on the current action since the playhead got there
\*   dead        the Block wrapped or finished and Run has not been called since
\* Kept when watch = "start":
\*   needInit    Run has activated the Block at a fresh position (inactive, index 0,
\*               action not polled yet) and since then no Init of the Block has been
\*               called and the Block has not been polled
\*   stop        "stopped": Stop was called with the playhead at k > 0 and Run has not
\*               been called since; "rerun": Run has been called since and the Block
\*               has not been polled yet; "none" otherwise, and after a SetIndex / JumpTo
\* Kept when watch = "streak":
\*   tickPlain   every poll of the Block in this Update returned Next and called
\*               nothing, and no call from another Block reached it
\*   tickFirst   the index of the first poll of the Block in this Update
\*   streakStart, streakN   the Block has been through streakN consecutive Updates
\*               with tickPlain and at least one poll, the first of them starting at
\*               index streakStart, with no Pause / Stop / Restart / SetIndex between
\* Kept when watch = "wake":
\*   began       the Block was active when the latest Update began
\*   polledTick  the Block has been polled in the latest Update
\*   woken       in the latest Update a Run / Switch made in a Poll reached the Block,
\*               which was inactive when that Update began
\*   halted      in the latest Update a Pause / Stop made in a Poll reached the Block,
\*               which was active when that Update began and had not been polled yet
\* Always kept:
\*   last        after a poll of the Block, until the next step: the index polled, the
\*               Flow returned, whether the Poll left indexChanged set (moved), the
\*               number of the poll in its Update (n) and what held when it was made
\*               (preFlow: the Flow of the poll of the Block made in the step before)
\*               and, when watch = "call", the SetIndex / JumpTo the Poll made (api, with its
\*               argument arg or label) and whether the Block was active before it (act)
\*   hist.jump    when watch = "call" and the step was a JumpTo called by the caller on
\*               the Block: its label, what it returned (ret) and, when that is
\*               -1, the Block before (pre)
\*   hist.def     when watch = "define" and the step was a Define: its ID and the
\*               actions it was called with
\*   hist.defs    when watch = "define": the Define calls made so far with each ID
\*   hist.t0      when watch = "clock": the time of the latest Init of the Wait of the
\*               Block (-1: none); hist.last then tells of a Wait polled the t0 before
\*               the poll, its Duration (dur) and the time of the poll (at)
Watches == {"flow", "start", "streak", "wake", "call", "define", "clock", "gate", "timing", "api",
            "pause", "order", "frame"}

NoPoll ==
    [idx |-> -1, flow |-> -1, moved |-> FALSE, n |-> 0, api |-> "none", arg |-> 0,
     label |-> "none", act |-> FALSE, t0 |-> -1, dur |-> 0, at |-> 0, preFlow |-> -1,
     prePend |-> -1, prePendBy |-> "none", preNeedInit |-> FALSE,
     preCurInit |-> FALSE, preStop |-> "none", preDead |-> FALSE]

\* No JumpTo by the caller.
NoJump == [label |-> "none", ret |-> -1, pre |-> [index |-> 0]]

\* No Define in the step.
NoDef == [id |-> "none", Actions |-> <<>>]

\* No poll of the Gate: see NoteGatePoll.
NoGatePoll ==
    [truth |-> <<>>, evald |-> {}, idle |-> 0, choose |-> 0, o |-> 0, j |-> -1,
     result |-> -1, pre |-> 0, post |-> 0, fresh |-> FALSE, first |-> FALSE,
     viaInit |-> FALSE, spent |-> FALSE]
\* The Gate of the Block watched, as made: see NoteGatePoll and NoteGateInit.
NoGate == [init |-> FALSE, viaInit |-> FALSE, begun |-> FALSE, fresh |-> {}, spent |-> FALSE]

\* No poll of the Timing.  A poll: the index before it, the pair whose Function was
\* called (-1: none), the Flow returned, the time, the target time of the pair
\* polled (as set by this poll at the latest), and the pairs whose Function has been
\* called in this pass, this poll included, in the order of the calls; the time of
\* the first poll of the pair polled in this pass (first), its Duration (dur), and
\* whether a pass had been completed before (again).
NoTimingPoll ==
    [pre |-> -1, called |-> -1, flow |-> -1, at |-> -1, target |-> -1, calls |-> <<>>,
     first |-> -1, dur |-> 0, again |-> FALSE]

\* No call noted.  A call: Routine.Restart by the caller or NewSwitchBlock's Function
\* in a Poll, the IDs it was made with and, of a Restart that reached the Block
\* watched, the index and the activity of that Block before it (index -1 otherwise).
NoApi == [op |-> "none", ids |-> {}, index |-> -1, active |-> FALSE, currentlyActive |-> FALSE]

\* No Pause noted.  A Pause of the Block watched, active then: its index at the call
\* (at), its index at the Run that followed (runAt, -1: no Run yet), and whether at
\* one of the two calls the update of the Block in the running Update was still to
\* come or running (open).
NoPause == [at |-> -1, open |-> FALSE, runAt |-> -1]

H0 ==
    [last |-> NoPoll, jump |-> NoJump, def |-> NoDef, defs |-> [id \in BlockIDs |-> 0],
     api |-> NoApi, pz |-> NoPause, res |-> NoPause,
     ran |-> FALSE, upd |-> FALSE, stepped |-> FALSE, order |-> <<>>, seen |-> <<>>,
     visited |-> {}, stopd |-> FALSE, stopPoll |-> FALSE, tfirst |-> -1,
     tdone |-> FALSE,
     cnt |-> 0, frame |-> -1, before |-> -1, idles |-> 0, idleAt |-> -1, idleAct |-> FALSE,
     gp |-> NoGatePoll, g |-> NoGate, tp |-> NoTimingPoll, calls |-> <<>>,
     t0 |-> -1, pend |-> -1, pendBy |-> "none",
     needInit |-> FALSE, curInit |-> FALSE, stop |-> "none", dead |-> FALSE,
     tickPlain |-> TRUE, tickFirst |-> -1, streakStart |-> -1, streakN |-> 0,
     began |-> FALSE, polledTick |-> FALSE, woken |-> FALSE, halted |-> FALSE]

\* h with the parts the run does not keep left as they are in H0.
Keep(w, h) ==
    CASE w = "flow" ->
           [h EXCEPT !.last.api = "none", !.last.arg = 0, !.last.label = "none",
                     !.last.act = FALSE, !.jump = NoJump,
                     !.needInit = H0.needInit, !.stop = H0.stop,
                     !.tickPlain = H0.tickPlain, !.tickFirst = H0.tickFirst,
                     !.streakStart = H0.streakStart, !.streakN = H0.streakN,
                     !.began = H0.began, !.polledTick = H0.polledTick,
                     !.woken = H0.woken, !.halted = H0.halted]
      [] w = "start" ->
           [h EXCEPT !.last.api = "none", !.last.arg = 0, !.last.label = "none",
                     !.last.act = FALSE, !.jump = NoJump,
                     !.pend = H0.pend, !.pendBy = H0.pendBy, !.curInit = H0.curInit,
                     !.dead = H0.dead, !.tickPlain = H0.tickPlain,
                     !.tickFirst = H0.tickFirst, !.streakStart = H0.streakStart,
                     !.streakN = H0.streakN,
                     !.began = H0.began, !.polledTick = H0.polledTick,
                     !.woken = H0.woken, !.halted = H0.halted]
      [] w = "streak" ->
           [h EXCEPT !.last.api = "none", !.last.arg = 0, !.last.label = "none",
                     !.last.act = FALSE, !.jump = NoJump,
                     !.pend = H0.pend, !.pendBy = H0.pendBy, !.curInit = H0.curInit,
                     !.dead = H0.dead, !.needInit = H0.needInit, !.stop = H0.stop,
                     !.began = H0.began, !.polledTick = H0.polledTick,
                     !.woken = H0.woken, !.halted = H0.halted]
      [] w = "wake" ->
           [h EXCEPT !.last.api = "none", !.last.arg = 0, !.last.label = "none",
                     !.last.act = FALSE, !.jump = NoJump,
                     !.pend = H0.pend, !.pendBy = H0.pendBy, !.curInit = H0.curInit,
                     !.dead = H0.dead, !.needInit = H0.needInit, !.stop = H0.stop,
                     !.tickPlain = H0.tickPlain, !.tickFirst = H0.tickFirst,
                     !.streakStart = H0.streakStart, !.streakN = H0.streakN]
      [] w = "define" -> [H0 EXCEPT !.def = h.def, !.defs = h.defs]
      [] w = "clock" -> [H0 EXCEPT !.last = h.last, !.t0 = h.t0]
      [] w = "api" ->
           [H0 EXCEPT !.last = [NoPoll EXCEPT !.n = h.last.n, !.idx = h.last.idx,
                                              !.flow = h.last.flow],
                      !.api = h.api]
      [] w = "pause" ->
           [H0 EXCEPT !.last = [NoPoll EXCEPT !.n = h.last.n, !.idx = h.last.idx,
                                              !.flow = h.last.flow],
                      !.pz = h.pz, !.res = h.res]
      [] w = "order" ->
           [H0 EXCEPT !.ran = h.ran, !.upd = h.upd, !.stepped = h.stepped,
                      !.order = h.order, !.seen = h.seen, !.visited = h.visited]
      [] w = "frame" ->
           [H0 EXCEPT !.last = [NoPoll EXCEPT !.n = h.last.n, !.idx = h.last.idx,
                                              !.flow = h.last.flow],
                      !.cnt = h.cnt, !.frame = h.frame, !.before = h.before,
                      !.idles = h.idles, !.idleAt = h.idleAt, !.idleAct = h.idleAct]
      [] w = "timing" -> [H0 EXCEPT !.tp = h.tp, !.calls = h.calls, !.tfirst = h.tfirst,
                                    !.tdone = h.tdone]
      [] w = "gate" ->
           [H0 EXCEPT !.last = [h.last EXCEPT !.preFlow = NoPoll.preFlow],
                      !.gp = h.gp, !.g = h.g]
      [] w = "call" ->
           [h EXCEPT !.last.preFlow = NoPoll.preFlow, !.pend = H0.pend, !.pendBy = H0.pendBy, !.curInit = H0.curInit,
                     !.dead = H0.dead, !.needInit = H0.needInit, !.stop = H0.stop,
                     !.tickPlain = H0.tickPlain, !.tickFirst = H0.tickFirst,
                     !.streakStart = H0.streakStart, !.streakN = H0.streakN,
                     !.began = H0.began, !.polledTick = H0.polledTick,
                     !.woken = H0.woken, !.halted = H0.halted]

Defined(Blocks) == {Blocks[k].ID : k \in 1..Len(Blocks)}
Pos(Blocks, id) == CHOOSE k \in 1..Len(Blocks) : Blocks[k].ID = id
BlockOf(Blocks, id) == Blocks[Pos(Blocks, id)]

\* The Blocks a Routine call with the given IDs reaches.
Targets(Blocks, ids) == {id \in Defined(Blocks) : ids = {} \/ id \in ids}

\* A call of Run / Pause / Stop / Restart / Switch reached the Block (b: before the call).
NoteApi(h, op, b) ==
    LET fresh == ~b.active /\ b.index = 0 /\ b.currentFrame = 0
        stopped == IF b.index > 0 \/ h.stop # "none" THEN "stopped" ELSE "none"
    IN CASE op = "Run" ->
              [h EXCEPT !.needInit = IF fresh THEN TRUE ELSE @,
                        !.stop = IF @ = "stopped" THEN "rerun" ELSE @,
                        !.dead = FALSE]
         [] op = "Pause" ->
              [h EXCEPT !.tickPlain = FALSE, !.streakN = 0, !.streakStart = -1]
         [] op = "Stop" ->
              [h EXCEPT !.stop = stopped, !.pend = -1, !.pendBy = "none",
                        !.needInit = FALSE, !.tickPlain = FALSE,
                        !.streakN = 0, !.streakStart = -1]
         [] op = "Restart" ->
              [h EXCEPT !.pend = -1, !.pendBy = "none", !.needInit = FALSE,
                        !.tickPlain = FALSE, !.streakN = 0, !.streakStart = -1]
         [] op = "Switch" ->
              [h EXCEPT !.stop = IF stopped = "stopped" THEN "rerun" ELSE "none",
                        !.pend = -1, !.pendBy = "none", !.needInit = FALSE,
                        !.dead = FALSE, !.tickPlain = FALSE,
                        !.streakN = 0, !.streakStart = -1]

\* The playhead was moved by a SetIndex / JumpTo made outside the Block's own Poll.
NoteMoved(h) ==
    [h EXCEPT !.pend = -1, !.pendBy = "none", !.stop = "none", !.needInit = FALSE,
              !.streakN = 0, !.streakStart = -1]

\* The Init calls of a step settle curInit.
NoteInits(h, bOld, bNew, inits) ==
    [h EXCEPT !.curInit =
                  IF \E i \in 1..Len(inits) : inits[i] = <<bNew.ID, bNew.index>> THEN TRUE
                  ELSE IF bNew.index # bOld.index THEN FALSE ELSE @]

\* The Block was polled: it ran f at bOld.index, its n-th poll in this Update; bEff
\* is the Block when f returned.
NotePoll(h, bOld, bEff, f, n) ==
    LET moved == f.api \in {"SetIndex", "JumpTo"} /\ bEff.index # bOld.index
        held == moved /\ f.flow \in {FlowIdle, FlowNext}
    IN [h EXCEPT
          !.last = [idx |-> bOld.index, flow |-> f.flow, moved |-> bEff.indexChanged,
                    n |-> n,
                    api |-> IF f.api \in {"SetIndex", "JumpTo"} THEN f.api ELSE "none",
                    arg |-> f.i, label |-> f.label,
                    act |-> bOld.active,
                    t0 |-> h.t0,
                    dur |-> IF KindAt(bOld, bOld.index) = "Wait"
                            THEN bOld.Actions[bOld.index + 1].Duration ELSE 0,
                    at |-> clock,
                    preFlow |-> h.last.flow,
                    prePend |-> h.pend, prePendBy |-> h.pendBy,
                    preNeedInit |-> h.needInit, preCurInit |-> h.curInit,
                    preStop |-> h.stop, preDead |-> h.dead],
          !.jump = NoJump,
          !.pend = IF held THEN bEff.index ELSE -1,
          !.pendBy = IF held THEN f.api ELSE "none",
          !.needInit = FALSE,
          !.stop = IF h.stop = "rerun" \/ moved THEN "none" ELSE @,
          !.tickPlain = @ /\ f.flow = FlowNext /\ f.api = "none",
          !.tickFirst = IF n = 1 THEN bOld.index ELSE @,
          !.polledTick = TRUE]

\* A call made in a Poll, in the running Update, reached the Block.
NoteMidUpdate(h, op) ==
    [h EXCEPT !.woken = @ \/ (op \in {"Run", "Switch"} /\ ~h.began),
              !.halted = @ \/ (op \in {"Pause", "Stop"} /\ h.began /\ ~h.polledTick)]

\* When watch = "order": the IDs defined, in the order of their latest Define
\* (order); the IDs of the Blocks polled in the running or latest Update, in the order
\* of their first polls (seen); and of the Block watched, since its Define: whether a
\* Run or Switch has reached it (ran), whether Update has been called (upd) and
\* whether it has been polled (stepped), and, while it is being polled, the indices
\* it has been polled at in the running Update (visited).
NoteDefine(h, id) ==
    [(IF id = Watched THEN [h EXCEPT !.ran = FALSE, !.upd = FALSE, !.stepped = FALSE] ELSE h)
       EXCEPT !.order = Append(SelectSeq(h.order, LAMBDA e : e # id), id), !.seen = <<>>,
              !.visited = IF id = Watched THEN {} ELSE @]
NoteRan(h, op, ids) ==
    IF watch = "order" /\ op \in {"Run", "Switch"} /\ Watched \in Targets(blocks, ids)
    THEN [h EXCEPT !.ran = TRUE] ELSE h
NoteUpdate(h) ==
    IF watch = "order"
    THEN [h EXCEPT !.upd = Watched \in Defined(blocks), !.seen = <<>>, !.visited = {}]
    ELSE h
NoteStep(h, b, f) ==
    IF watch = "order"
    THEN NoteRan([h EXCEPT !.seen = IF @ # <<>> /\ @[Len(@)] = b.ID THEN @
                                    ELSE Append(@, b.ID),
                           !.stepped = @ \/ b.ID = Watched,
                           !.visited = IF b.ID = Watched THEN @ \cup {b.index} ELSE {}],
                 f.api, f.ids)
    ELSE h

\* When watch = "wake": a Stop has reached the Block watched and no Run or Switch
\* has since, nor a SetIndex / JumpTo of the caller (stopd); the step was a poll of
\* the Block made with stopd set (stopPoll).
NoteStop(h, op, ids) ==
    IF watch = "wake" /\ op \in RoutineApis /\ Watched \in Targets(blocks, ids)
    THEN [h EXCEPT !.stopd = CASE op = "Stop" -> TRUE
                               [] op \in {"Run", "Switch"} -> FALSE
                               [] OTHER -> @]
    ELSE h
NoteStopPoll(h, id) ==
    IF watch = "wake" /\ id = Watched THEN [h EXCEPT !.stopPoll = h.stopd] ELSE h

\* When watch = "frame", of the Block watched: the polls of its current action since
\* the playhead last got there by an Advance, a Finish, a SetIndex / JumpTo that
\* moved it, a Restart, a Stop or a Switch (cnt); of the poll just made, the
\* currentFrame it found (frame) and the cnt before it (before); the polls in a row
\* that returned Idle and called nothing, no call having reached the Block between
\* them (idles), the index at the first of them (idleAt) and whether the Block was
\* active before it (idleAct).
NoteFrameCall(h, op, ids) ==
    IF watch = "frame" /\ op \in RoutineApis /\ Watched \in Targets(blocks, ids)
    THEN [h EXCEPT !.idles = 0, !.idleAt = -1, !.idleAct = FALSE,
                   !.cnt = IF op \in {"Restart", "Stop", "Switch"} THEN 0 ELSE @]
    ELSE h
NoteFrameMoved(h, id, bNew) ==
    IF watch = "frame" /\ id = Watched
    THEN [h EXCEPT !.idles = 0, !.idleAt = -1, !.idleAct = FALSE,
                   !.cnt = IF bNew.index # BlockOf(blocks, Watched).index THEN 0 ELSE @]
    ELSE h
NoteFramePoll(h, bOld, bEff, f) ==
    IF watch # "frame" THEN h
    ELSE IF bOld.ID # Watched THEN NoteFrameCall(h, f.api, f.ids)
    ELSE LET plain == f.flow = FlowIdle /\ f.api = "none"
             reset == \/ f.flow # FlowIdle
                      \/ bEff.index # bOld.index
                      \/ f.api \in {"Restart", "Stop", "Switch"} /\ Watched \in Targets(blocks, f.ids)
         IN [h EXCEPT !.frame = bOld.currentFrame, !.before = h.cnt,
                      !.cnt = IF reset THEN 0 ELSE @ + 1,
                      !.idles = IF plain THEN @ + 1 ELSE 0,
                      !.idleAt = IF plain THEN (IF h.idles = 0 THEN bOld.index ELSE @) ELSE -1,
                      !.idleAct = IF plain THEN (IF h.idles = 0 THEN bOld.active ELSE @)
                                  ELSE FALSE]

\* An Update begins, New being the Blocks after its first loop.
NoteBegin(h, New) ==
    IF Watched \in Defined(New)
    THEN [h EXCEPT !.began = BlockOf(New, Watched).active,
                   !.polledTick = FALSE, !.woken = FALSE, !.halted = FALSE]
    ELSE h

\* A step that is not a poll of the Block: last is gone.
Fade(h) == [h EXCEPT !.last = NoPoll, !.jump = NoJump, !.def = NoDef, !.gp = NoGatePoll,
                      !.api = NoApi, !.res = NoPause, !.frame = -1, !.before = -1,
                      !.stopPoll = FALSE]

\* Outside an Update nothing is kept of its polls.
NoteTick(h) == [h EXCEPT !.tickPlain = TRUE, !.tickFirst = -1]

\* An Update is over, in which the Block (of len actions) was polled or not.
NoteTickEnd(h, len) ==
    NoteTick(IF h.tickFirst # -1 /\ h.tickPlain
             THEN IF h.streakN = 0 \/ h.streakN >= len
                  THEN [h EXCEPT !.streakStart = h.tickFirst, !.streakN = 1]
                  ELSE [h EXCEPT !.streakN = @ + 1]
             ELSE [h EXCEPT !.streakN = 0, !.streakStart = -1])

\* An Init call of the step on the Wait of the Block sets t0.
NoteWaitInit(h, bNew, inits) ==
    IF \E i \in 1..Len(inits) : KindAt(bNew, inits[i][2]) = "Wait"
    THEN [h EXCEPT !.t0 = clock] ELSE h

\* The Gate c of the Block watched was polled, truth being what its CheckFuncs return
\* and result what the nested action polled returns, with the outcome r.
\* gp, of this poll: truth; the entries whose CheckFunc was called; the calls of onIdle
\* and onChoose; the nested action polled (o, j) and what it returned; the entry
\* active before and after; whether Init was called on the nested action polled since
\* it was last polled (fresh); whether it is the first nested action polled since the
\* entry was made active (first); whether Gate.Init had run, after an entry was last
\* made active, when this entry was (viaInit); spent before the poll.
\* g, of the Gate: Gate.Init has run since an entry was last made active (init);
\* viaInit of the entry active; a nested action has been polled since the entry was
\* made active (begun); the nested actions Init was called on since they were last
\* polled (fresh); an active entry has returned FlowNext and no entry has been made
\* active since (spent).
NoteGatePoll(h, c, truth, result, r) ==
    LET g == h.g
        commit == c.ActiveEntry = 0 /\ r.gate.ActiveEntry # 0
        nested == r.o # 0
        via == IF commit THEN g.init ELSE g.viaInit
    IN [h EXCEPT
          !.gp = [truth |-> truth, evald |-> r.evald, idle |-> r.idle,
                  choose |-> r.choose, o |-> r.o, j |-> r.j,
                  result |-> IF nested THEN result ELSE -1,
                  pre |-> c.ActiveEntry, post |-> r.gate.ActiveEntry,
                  fresh |-> nested /\ <<r.o, r.j>> \in g.fresh,
                  first |-> nested /\ ~g.begun,
                  viaInit |-> via, spent |-> g.spent],
          !.g = [init |-> IF commit THEN FALSE ELSE g.init,
                 viaInit |-> via,
                 begun |-> IF commit THEN FALSE ELSE g.begun \/ nested,
                 fresh |-> (g.fresh \ {<<r.o, r.j>>})
                           \cup {<<c.ActiveEntry, r.inits[i]>> : i \in DOMAIN r.inits},
                 spent |-> IF commit THEN FALSE
                           ELSE g.spent \/ (c.ActiveEntry # 0 /\ r.flow = FlowNext)]]

\* An Init call of the step on the Gate of the Block sets init; the first nested
\* actions are fresh.
NoteGateInit(h, bNew, inits) ==
    IF \E i \in 1..Len(inits) : KindAt(bNew, inits[i][2]) = "Gate"
    THEN LET i == CHOOSE i \in 1..Len(inits) : KindAt(bNew, inits[i][2]) = "Gate"
             c == bNew.Actions[inits[i][2] + 1]
         IN [h EXCEPT !.g.init = TRUE,
                      !.g.fresh = @ \cup {<<o, 0>> : o \in GateInits(c)}]
    ELSE h

\* hist after a step that leaves the Blocks New with the Init calls inits, h being
\* what the step itself noted; over: the step ends an Update.
Noted(h, New, inits, over) ==
    IF Watched \notin Defined(blocks) \/ Watched \notin Defined(New) THEN h
    ELSE LET h0 == IF watch = "clock" THEN NoteWaitInit(h, BlockOf(New, Watched), inits)
                   ELSE IF watch = "gate"
                   THEN NoteGateInit(h, BlockOf(New, Watched), inits)
                   ELSE h
             h1 == NoteInits(h0, BlockOf(blocks, Watched), BlockOf(New, Watched), inits)
             h2 == IF over
                   THEN [NoteTickEnd(h1, Len(BlockOf(New, Watched).Actions))
                           EXCEPT !.visited = {}]
                   ELSE h1
         IN Keep(watch, h2)

\* ------------------------------------------------------------- steps

Idle == cursor = 0

InitWatching(w) ==
    /\ blocks = <<>>
    /\ cursor = 0
    /\ initLog = <<>>
    /\ polls = 0
    /\ hist = H0
    /\ watch = w
    /\ clock = 0
    /\ timing = NoTiming

Init == InitWatching("flow")

\* The caller defines (or redefines) the Block id.  The runs that count the Define
\* calls make at most MaxDefs with one ID and number the Blocks allocated.
Define(id, Actions) ==
    /\ Idle
    /\ watch = "define" => hist.defs[id] < MaxDefs
    /\ \E gen \in {IF watch = "define" THEN hist.defs[id] + 1 ELSE 0} :
       \E st \in {RoutineDefine(St(blocks, <<>>), id, Actions, gen)} :
         /\ blocks' = st.Blocks
         /\ initLog' = st.inits
         /\ hist' = IF watch = "define"
                    THEN [H0 EXCEPT !.def = [id |-> id, Actions |-> Actions],
                                    !.defs = [hist.defs EXCEPT ![id] = gen]]
                    ELSE IF watch = "order" THEN NoteDefine(hist, id)
                    ELSE IF id = Watched THEN H0 ELSE Fade(hist)
    /\ UNCHANGED <<cursor, polls, watch, clock, timing>>

\* A call of Run / Pause / Stop / Restart / Switch reached the Block watched (b: the
\* Block before the call; k: its position in Blocks): pz is the last Pause, if the
\* Block has not been stopped, restarted or moved by the caller since and no poll has
\* followed a Run.
NotePauseCall(h, op, b, k) ==
    CASE op = "Pause" ->
           IF b.active
           THEN [h EXCEPT !.pz = [at |-> b.index,
                                  open |-> cursor > 0 /\ cursor <= k /\ b.currentlyActive,
                                  runAt |-> -1]]
           ELSE h
      [] op = "Run" ->
           IF h.pz.at # -1 /\ h.pz.runAt = -1
           THEN [h EXCEPT !.pz.runAt = b.index,
                          !.pz.open = @ \/ (cursor > 0 /\ cursor <= k /\ b.currentlyActive)]
           ELSE h
      [] OTHER -> [h EXCEPT !.pz = NoPause]

\* A poll of the Block watched: res is the Pause and Run it is the first poll after.
NotePausePoll(h) ==
    IF h.pz.runAt # -1 THEN [h EXCEPT !.res = h.pz, !.pz = NoPause]
    ELSE [h EXCEPT !.res = NoPause]

\* A call of Routine.Restart by the caller with the IDs ids.
NoteRestart(h, ids) ==
    [h EXCEPT !.api =
        IF Watched \in Targets(blocks, ids)
        THEN [op |-> "Restart", ids |-> ids, index |-> BlockOf(blocks, Watched).index,
              active |-> BlockOf(blocks, Watched).active,
              currentlyActive |-> BlockOf(blocks, Watched).currentlyActive]
        ELSE [NoApi EXCEPT !.op = "Restart", !.ids = ids]]

\* The caller calls Routine.Run / Pause / Stop / Restart with the IDs ids.
RoutineCall(op, ids) ==
    /\ Idle
    /\ blocks # <<>>
    /\ \E st \in {ForBlocks(op, St(blocks, <<>>), ids, 1)} :
         LET h1 == IF Watched \in Targets(blocks, ids)
                   THEN NoteTick(NoteApi(Fade(hist), op, BlockOf(blocks, Watched)))
                   ELSE Fade(hist)
             h2 == IF watch = "api" /\ op = "Restart" THEN NoteRestart(h1, ids)
                   ELSE IF watch = "pause" /\ Watched \in Targets(blocks, ids)
                   THEN NotePauseCall(h1, op, BlockOf(blocks, Watched), Pos(blocks, Watched))
                   ELSE NoteStop(NoteFrameCall(NoteRan(h1, op, ids), op, ids), op, ids)
         IN /\ blocks' = st.Blocks
            /\ initLog' = st.inits
            /\ hist' = Noted(h2, st.Blocks, st.inits, FALSE)
    /\ UNCHANGED <<cursor, polls, watch, clock, timing>>

\* hist after the caller's SetIndex / JumpTo on the Block id has led to st; jump:
\* the JumpTo made, if any.
Repositioned(id, st, jump) ==
    LET h0 == [NoteFrameMoved(Fade(hist), id, BlockOf(st.Blocks, id))
                  EXCEPT !.jump = IF id = Watched THEN jump ELSE NoJump,
                         !.stopd = IF id = Watched THEN FALSE ELSE @,
                         !.pz = IF id = Watched THEN NoPause ELSE @]
        h1 == IF id = Watched /\ BlockOf(st.Blocks, id).index # BlockOf(blocks, id).index
              THEN NoteMoved(h0) ELSE h0
    IN Noted(h1, st.Blocks, st.inits, FALSE)

\* The caller calls Block.SetIndex(i) on the Block id.
CallSetIndex(id, i) ==
    /\ Idle
    /\ id \in Defined(blocks)
    /\ \E st \in {SetIndex(St(blocks, <<>>), Pos(blocks, id), i)} :
         /\ blocks' = st.Blocks
         /\ initLog' = st.inits
         /\ hist' = Repositioned(id, st, NoJump)
    /\ UNCHANGED <<cursor, polls, watch, clock, timing>>

\* The caller calls Block.JumpTo(label) on the Block id.
CallJumpTo(id, label) ==
    /\ Idle
    /\ id \in Defined(blocks)
    /\ \E st \in {JumpTo(St(blocks, <<>>), Pos(blocks, id), label)} :
         /\ blocks' = st.Blocks
         /\ initLog' = st.inits
         /\ hist' = Repositioned(id, st,
                                 [label |-> label,
                                  ret |-> JumpToResult(BlockOf(blocks, id), label),
                                  pre |-> IF JumpToResult(BlockOf(blocks, id), label) = -1
                                          THEN BlockOf(blocks, id) ELSE NoJump.pre])
    /\ UNCHANGED <<cursor, polls, watch, clock, timing>>

\* The caller calls Routine.Update: the activity flags are copied and the loop over
\* the Blocks starts (and is over at once when no Block is active).
Update ==
    /\ Idle
    /\ blocks # <<>>
    /\ \E New \in {Snapshot(blocks)} :
         /\ blocks' = New
         /\ cursor' = NextActive(New, 1)
         /\ hist' = Noted(NoteUpdate(NoteBegin(NoteTick(Fade(hist)), New)), New, <<>>,
                          NextActive(New, 1) = 0)
    /\ initLog' = <<>>
    /\ polls' = 0
    /\ UNCHANGED <<watch, clock, timing>>

\* What the action polled may do: a Label or Collection returns FlowNext; a Wait returns
\* what the clock makes it return (it idles at most MaxClock + 1 times in a row, the
\* Routine being updated only so often while the clock stands); a Function runs any
\* PollFunc, within the bounds (n: the polls of the Block in this Update so far; the
\* runs that count the idle polls let a Function idle once more).
\* SetIndex and JumpTo are left to the Block watched: in the one-action Block beside
\* it, whose index is always 0, they change nothing.
PollChoices(b, n) ==
    IF b.Actions[b.index + 1].kind \in {"Label", "Collection"} THEN {LabelPoll}
    ELSE IF b.Actions[b.index + 1].kind = "Gate" THEN {}
    ELSE IF b.Actions[b.index + 1].kind = "Wait"
    THEN {f \in {PollFunc("none", 0, "none", {}, WaitPoll(b.Actions[b.index + 1], clock))} :
            f.flow = FlowIdle => b.currentFrame <= MaxClock}
    ELSE {f \in PollFuncs :
            /\ f.flow = FlowIdle =>
                  b.currentFrame < MaxFrame + (IF watch = "frame" THEN 1 ELSE 0)
            /\ f.flow = FlowNext => n < MaxPolls
            /\ f.api \in {"SetIndex", "JumpTo"} => b.ID = Watched}

\* hist after the poll of f in the Block bOld, its n-th in this Update, when eff is
\* the state at the return of f and bNew the Block at the end of update.
PollNoted(bOld, eff, bNew, f, n) ==
    LET h1 == IF bOld.ID = Watched
              THEN NotePoll(hist, bOld, BlockOf(eff.Blocks, Watched), f, n)
              ELSE Fade(hist)
        h2 == IF f.api \in RoutineApis /\ Watched \in Targets(blocks, f.ids)
              THEN NoteMidUpdate(NoteApi(h1, f.api, BlockOf(blocks, Watched)), f.api)
              ELSE h1
        h3 == IF watch = "api"
              THEN [h2 EXCEPT !.api = IF f.api = "Switch"
                                      THEN [NoApi EXCEPT !.op = "Switch", !.ids = f.ids]
                                      ELSE NoApi]
              ELSE IF watch = "pause"
              THEN LET p1 == IF bOld.ID = Watched THEN NotePausePoll(h2) ELSE h2
                   IN IF f.api \in RoutineApis /\ Watched \in Targets(blocks, f.ids)
                      THEN NotePauseCall(p1, f.api, BlockOf(blocks, Watched),
                                         Pos(blocks, Watched))
                      ELSE p1
              ELSE NoteStop(NoteStopPoll(NoteFramePoll(NoteStep(h2, bOld, f), bOld,
                                                       BlockOf(eff.Blocks, bOld.ID), f),
                                         bOld.ID),
                            f.api, f.ids)
    IN IF bOld.ID = Watched
       THEN [h3 EXCEPT !.dead = @ \/ ~bNew.currentlyActive] ELSE h3

\* One invocation of Block.update, made by Routine.Update's loop or by the update
\* before it (case FlowNext), on the Block at the cursor.  eff is the state when Poll
\* returns, st the state at the end of update, next the cursor after it.
\* Funcs: the PollFuncs the Functions of the run are made of.
PollOf(Funcs) ==
    /\ cursor > 0
    /\ blocks[cursor].index \in 0..(Len(blocks[cursor].Actions) - 1)
    /\ \E f \in PollChoices(blocks[cursor], polls) \cap (Funcs \cup {LabelPoll}) :
       \E eff \in {UpdatePoll(St(blocks, <<>>), cursor, f)} :
       \E st \in {UpdateFlow(eff, cursor, f.flow)} :
       \E next \in {IF UpdateAgain(st.Blocks[cursor], f) THEN cursor
                    ELSE NextActive(st.Blocks, cursor + 1)} :
       \E h \in {PollNoted(blocks[cursor], eff, st.Blocks[cursor], f, polls + 1)} :
            /\ blocks' = st.Blocks
            /\ initLog' = st.inits
            /\ cursor' = next
            /\ polls' = IF next = cursor THEN polls + 1 ELSE 0
            /\ hist' = Noted(h, st.Blocks, st.inits, next = 0)
            /\ UNCHANGED <<watch, clock, timing>>

Poll == PollOf(PollFuncs)

\* What the CheckFuncs of the Gate c may return: anything (TRUE stands where there is
\* no CheckFunc and, once an entry is active, for the CheckFuncs of the others).
Truths(c) ==
    {t \in [1..Len(c.Options) -> BOOLEAN] :
        \A o \in 1..Len(c.Options) :
            c.Options[o].CheckFunc = "nil" \/ c.ActiveEntry \notin {0, o} => t[o]}
\* What the nested action the Gate c polls may return: anything (FlowIdle stands
\* where none is polled).
Results(c) ==
    IF c.ActiveEntry # 0 /\ Len(c.Options[c.ActiveEntry].actions) > 0
    THEN Flows ELSE {FlowIdle}

\* One invocation of Block.update on the Block at the cursor, whose current action is
\* a Gate (a poll that leaves the Gate as it is and returns FlowIdle is made up to
\* currentFrame = MaxFrame only).
PollGate ==
    /\ cursor > 0
    /\ KindAt(blocks[cursor], blocks[cursor].index) = "Gate"
    /\ \E c \in {blocks[cursor].Actions[blocks[cursor].index + 1]} :
       \E truth \in Truths(c), result \in Results(c) :
       \E r \in {GatePoll(c, truth, result)} :
       \E f \in {PollFunc("none", 0, "none", {}, r.flow)} :
       \E eff \in {[UpdatePoll(St(blocks, <<>>), cursor, f) EXCEPT
                       !.Blocks[cursor].Actions[blocks[cursor].index + 1] = r.gate]} :
       \E st \in {UpdateFlow(eff, cursor, f.flow)} :
       \E next \in {IF UpdateAgain(st.Blocks[cursor], f) THEN cursor
                    ELSE NextActive(st.Blocks, cursor + 1)} :
       \E h \in {PollNoted(blocks[cursor], eff, st.Blocks[cursor], f, polls + 1)} :
            /\ r.gate = c /\ r.flow = FlowIdle => blocks[cursor].currentFrame <= MaxFrame
            /\ blocks' = st.Blocks
            /\ initLog' = st.inits
            /\ cursor' = next
            /\ polls' = IF next = cursor THEN polls + 1 ELSE 0
            /\ hist' = Noted(IF blocks[cursor].ID = Watched
                             THEN NoteGatePoll(h, c, truth, result, r) ELSE h,
                             st.Blocks, st.inits, next = 0)
            /\ UNCHANGED <<watch, clock, timing>>

\* Block.update on a Block whose index is not an index of its action list (a Block
\* defined without actions): b.Actions[b.index] panics, and the program is over.
Fault ==
    /\ cursor > 0
    /\ blocks[cursor].index \notin 0..(Len(blocks[cursor].Actions) - 1)
    /\ cursor' = -1
    /\ UNCHANGED <<blocks, initLog, polls, hist, watch, clock, timing>>

Next ==
    \/ \E id \in BlockIDs : \E Actions \in ListsOf(id) : Define(id, Actions)
    \/ \E op \in {"Run", "Pause", "Stop", "Restart"}, ids \in IdArgs : RoutineCall(op, ids)
    \/ \E i \in -1..MaxLen : CallSetIndex(Watched, i)
    \/ \E label \in JumpLabels : CallJumpTo(Watched, label)
    \/ Update
    \/ Poll

\* The runs that keep the "flow" part of hist.
Spec == Init /\ [][Next]_vars
\* The runs that keep the "start" part of hist.
SpecStart == InitWatching("start") /\ [][Next]_vars
\* The runs that keep the "streak" part of hist.
SpecStreak == InitWatching("streak") /\ [][Next]_vars
\* The runs that keep the "wake" part of hist.
SpecWake == InitWatching("wake") /\ [][Next]_vars
\* The runs that keep the "call" part of hist.
SpecCall == InitWatching("call") /\ [][Next]_vars
\* The runs that keep the "api" part of hist.
SpecApi == InitWatching("api") /\ [][Next]_vars
\* The runs that keep the "pause" part of hist.
SpecPause == InitWatching("pause") /\ [][Next]_vars

\* The runs that keep the "order" part of hist.
SpecOrder == InitWatching("order") /\ [][Next]_vars

\* The runs that keep the "frame" part of hist.
SpecFrame == InitWatching("frame") /\ [][Next]_vars

\* Time passes.
Tick ==
    /\ clock < MaxClock
    /\ clock' = clock + 1
    /\ UNCHANGED <<blocks, cursor, initLog, polls, hist, watch, timing>>

\* The Functions that call nothing.
PlainFuncs == {f \in PollFuncs : f.api = "none"}

\* The runs of a drive loop: Blocks are defined once and run, Update is called again
\* and again and every Poll returns; the Functions call nothing, and none idles
\* more than MaxFrame times in a row.
NextLive ==
    \/ \E id \in BlockIDs : \E Actions \in ListsOf(id) :
          id \notin Defined(blocks) /\ Define(id, Actions)
    \/ \E ids \in IdArgs : RoutineCall("Run", ids)
    \/ Update
    \/ PollOf(PlainFuncs)
SpecLive ==
    Init /\ [][NextLive]_vars /\ WF_vars(Update) /\ WF_vars(PollOf(PlainFuncs))

\* The program that defines Blocks with Collections, also without any action, runs
\* them and updates the Routine, its Functions calling nothing.
NextDefine ==
    \/ \E id \in BlockIDs : \E Actions \in ArgsOf(id) : Define(id, Actions)
    \/ RoutineCall("Run", {})
    \/ Update
    \/ PollOf(PlainFuncs)
    \/ Fault

\* The runs that keep the "define" part of hist.
SpecDefine == InitWatching("define") /\ [][NextDefine]_vars

\* The program that defines a Block with a Wait, runs and restarts it and updates the
\* Routine while time passes, its Functions calling nothing.
NextClock ==
    \/ \E Actions \in WaitLists : Define(Watched, Actions)
    \/ \E op \in {"Run", "Restart"} : RoutineCall(op, {})
    \/ Update
    \/ PollOf(PlainFuncs)
    \/ Tick

\* The runs that keep the "clock" part of hist.
SpecClock == InitWatching("clock") /\ [][NextClock]_vars

\* The program that defines one Block, with a Gate, runs and stops it, sets its index
\* and updates the Routine, its Functions calling nothing.
NextGate ==
    \/ \E Actions \in GateLists : blocks = <<>> /\ Define(Watched, Actions)
    \/ \E op \in {"Run", "Stop"} : RoutineCall(op, {})
    \/ \E i \in {0, 1} : CallSetIndex(Watched, i)
    \/ Update
    \/ PollOf(PlainFuncs)
    \/ PollGate

\* The runs that keep the "gate" part of hist.
SpecGate == InitWatching("gate") /\ [][NextGate]_vars

\* The program makes the Timing it polls, of 1 to MaxPairs pairs.
MakeTiming(durations) ==
    /\ timing = NoTiming
    /\ timing' = NewTiming([i \in DOMAIN durations |-> TimingPair(durations[i])])
    /\ UNCHANGED <<blocks, cursor, initLog, polls, hist, watch, clock>>

\* The program calls Timing.Init: the pass begins again.
CallTimingInit ==
    /\ timing # NoTiming
    /\ timing' = TimingInit(timing)
    /\ hist' = Keep(watch, [hist EXCEPT !.tp = NoTimingPoll, !.calls = <<>>, !.tfirst = -1])
    /\ UNCHANGED <<blocks, cursor, initLog, polls, watch, clock>>

\* The program calls Timing.Poll.  hist.calls: the pairs whose Function has been
\* called in the pass that is running, in the order of the calls; hist.tfirst: the
\* time of the first poll in this pass of the pair at the index, if it has been
\* polled in it (else -1); hist.tdone: a Poll has returned FlowNext.
CallTimingPoll ==
    /\ timing # NoTiming
    /\ \E r \in {TimingPoll(timing, clock)} :
       \E first \in {IF hist.tfirst = -1 THEN clock ELSE hist.tfirst} :
       \E calls \in {IF r.called = -1 THEN hist.calls ELSE Append(hist.calls, r.called)} :
         /\ timing' = r.timing
         /\ hist' = Keep(watch,
                [hist EXCEPT
                    !.tp = [pre |-> timing.index, called |-> r.called, flow |-> r.flow,
                            at |-> clock,
                            target |-> r.timing.pairs[timing.index + 1].targetTime,
                            calls |-> calls, first |-> first,
                            dur |-> timing.pairs[timing.index + 1].Duration,
                            again |-> hist.tdone],
                    !.calls = IF r.flow = FlowNext THEN <<>> ELSE calls,
                    !.tfirst = IF r.called = -1 THEN first ELSE -1,
                    !.tdone = @ \/ r.flow = FlowNext])
    /\ UNCHANGED <<blocks, cursor, initLog, polls, watch, clock>>

\* The program that makes a Timing and polls it while time passes.
NextTiming ==
    \/ \E durations \in UNION {[1..n -> 0..MaxWait] : n \in 1..MaxPairs} :
          MakeTiming(durations)
    \/ CallTimingInit
    \/ CallTimingPoll
    \/ Tick

\* The runs that keep the "timing" part of hist.
SpecTiming == InitWatching("timing") /\ [][NextTiming]_vars

\* ------------------------------------------------------------- properties

\* The Block watched, once defined.
X == BlockOf(blocks, Watched)
\* The step just taken was a poll of the Block watched.
Polled == Watched \in Defined(blocks) /\ hist.last.n >= 1
\* The number of Init calls of the last step on action i of the Block watched.
InitCount(i) == Cardinality({j \in DOMAIN initLog : initLog[j] = <<Watched, i>>})
\* The next step is a poll of the Block watched, in the running Update.
PolledNext == cursor # 0 /\ blocks[cursor].ID = Watched

\* C1 (as stated): within one Update at most one action of a Block is polled; the
\* action made current by an Advance waits for the next Update.
C1_OnePollPerUpdate == hist.last.n <= 1

\* C1 (amended): a Block is polled a second or later time within one Update only
\* directly after a poll of it that returned Advance, and the action polled then has had
\* its Init called; after Idle or Finish its next poll is in a later Update.
C1_PolledAgainOnlyAfterAdvance ==
    hist.last.n >= 2 => hist.last.preFlow = FlowNext /\ hist.last.preCurInit

\* A second poll of the Block within one Update.
C1_Witness == Polled /\ hist.last.n >= 2 /\ hist.last.preFlow = FlowNext

\* C2: an action that moved the playhead of its Block to another index j in its own Poll
\* (SetIndex or JumpTo) and returned Advance or Idle is followed, in that Block, by
\* the poll of the action at j, never j + 1.
C2_RepositionSuppressesIncrement ==
    hist.last.prePend # -1 => hist.last.idx = hist.last.prePend

\* The poll that follows a SetIndex made in a Poll that returned Advance.
C2_Witness ==
    /\ Polled
    /\ hist.last.prePendBy = "SetIndex"
    /\ hist.last.preFlow = FlowNext
    /\ hist.last.idx = hist.last.prePend

\* C3: a SetIndex / JumpTo made inside a Poll that moves the playhead to an action has
\* that action's Init called exactly once in that step.
C3_TargetInitOnce ==
    (Polled /\ hist.pend # -1) => InitCount(hist.pend) = 1

\* C4: the first poll of a Block after Run activated it at a fresh position (inactive,
\* index 0, action not polled yet) is preceded by an Init of action 0 made at or after
\* that Run.
C4_InitOnActivation == Polled => ~hist.last.preNeedInit

\* C5 (as stated): the action a JumpTo made inside a Poll jumped to is polled on the next
\* tick, not earlier: its poll is the first poll of the Block in an Update.
C5_LabelPolledNextTick ==
    (Polled /\ hist.last.prePendBy = "JumpTo") => hist.last.n = 1

\* C5 (amended): the action a JumpTo made inside a Poll jumped to is the next action of
\* the Block that is polled (within the same Update when the Poll returned Advance, in
\* the next Update that polls the Block when it returned Idle); it is a Label, and its
\* Init has run before that poll.
C5_LabelPolledNext ==
    (Polled /\ hist.last.prePendBy = "JumpTo") =>
        /\ hist.last.idx = hist.last.prePend
        /\ X.Actions[hist.last.idx + 1].kind = "Label"
        /\ hist.last.preCurInit

\* The poll of a Label that a JumpTo in the Poll before it, in the same Update, jumped to.
C5_Witness ==
    /\ Polled
    /\ hist.last.prePendBy = "JumpTo"
    /\ hist.last.n >= 2
    /\ X.Actions[hist.last.idx + 1].kind = "Label"

C8_FinishDeactivates ==
    Watched \in Defined(blocks) =>
        /\ (hist.last.n >= 1 /\ hist.last.flow = FlowFinish) =>
              /\ X.index = 0
              /\ ~X.active
              /\ ~X.currentlyActive
              /\ initLog # <<>>
              /\ initLog[Len(initLog)] = <<Watched, 0>>
        /\ hist.dead => ~PolledNext

\* The second of two actions has returned Finish.
C8_Witness ==
    /\ Polled
    /\ hist.last.flow = FlowFinish
    /\ hist.last.idx = 1
    /\ X.index = 0
    /\ ~X.active

\* C9 (as stated): after exactly N consecutive Updates in which the actions polled in a
\* Block of N actions returned Advance, with no jump, the playhead is back at the index
\* it started from.
C9_BackAtStart ==
    (Watched \in Defined(blocks) /\ Idle /\ hist.streakN = Len(X.Actions)) =>
        X.index = hist.streakStart

\* C9 (amended): after every Update in which each action polled in the Block returned
\* Advance, with no jump, and so after N of them in a row, the playhead is at index 0: it
\* is back where it started only when it started from index 0.
C9_BackAtZero ==
    (Watched \in Defined(blocks) /\ Idle /\ hist.streakN >= 1) => X.index = 0

\* Two Updates in a row in which a Block of two actions only advanced.
C9_Witness ==
    /\ Watched \in Defined(blocks)
    /\ Idle
    /\ Len(X.Actions) = 2
    /\ hist.streakN = 2
    /\ X.index = 0

\* C10: in the first Update that polls a Block after it was stopped with its playhead at
\* an index k > 0 and run again, the first action polled is the action at index 0.
C10_StoppedRestartsAtZero ==
    (Polled /\ hist.last.preStop = "rerun" /\ hist.last.n = 1) => hist.last.idx = 0

\* C11: a Block that was inactive when an Update began and that a Run made by another
\* Block's action reached during that Update is not polled in that Update; being active
\* when the next Update begins, it is polled in that one (every Block active when an
\* Update begins has been polled when the Update is over).
C11_ActivationFromNextUpdate ==
    Watched \in Defined(blocks) =>
        /\ hist.woken => ~hist.polledTick /\ ~PolledNext
        /\ (Idle /\ hist.began) => hist.polledTick

\* A Block run by another Block's action during an Update it began inactive, after
\* that Update.
C11_Witness ==
    /\ Watched \in Defined(blocks)
    /\ Idle
    /\ hist.woken
    /\ X.active
    /\ ~hist.polledTick

\* C12: a Block that was active when an Update began and that a Pause / Stop made by an
\* earlier Block's action reached before its poll is still polled in that Update;
\* a Block is polled only in Updates that began with it active.
C12_PauseFromNextUpdate ==
    Watched \in Defined(blocks) =>
        /\ (hist.halted /\ ~hist.polledTick) => cursor # 0 /\ cursor <= Pos(blocks, Watched)
        /\ Polled => hist.began

\* A Block polled in the Update in which an earlier Block paused or stopped it.
C12_Witness ==
    /\ Polled
    /\ hist.halted
    /\ ~X.active

\* The index of a list of n actions that is nearest to i.
Nearest(i, n) ==
    CHOOSE j \in 0..(n - 1) :
        \A m \in 0..(n - 1) :
            (IF j < i THEN i - j ELSE j - i) <= (IF m < i THEN i - m ELSE m - i)

\* C13: in every state the index of every Block is an index of its (non-empty) action
\* list; from every state SetIndex with any integer leaves the index at the nearest
\* index of the list, JumpTo leaves it at an index of the list, Restart and Stop at 0.
C13_IndexInRange ==
    \A k \in 1..Len(blocks) :
        LET n == Len(blocks[k].Actions)
            here == St(blocks, <<>>)
        IN /\ n > 0
           /\ blocks[k].index \in 0..(n - 1)
           /\ \A i \in (-2)..(MaxLen + 1) :
                 SetIndex(here, k, i).Blocks[k].index = Nearest(i, n)
           /\ \A l \in JumpLabels : JumpTo(here, k, l).Blocks[k].index \in 0..(n - 1)
           /\ BlockRestart(here, k).Blocks[k].index = 0
           /\ BlockStop(here, k).Blocks[k].index = 0

\* A Poll at index 0 called SetIndex with an integer past the end of the list and
\* returned FlowIdle: the Block is at its last index.
C13_Witness ==
    /\ Polled
    /\ hist.last.api = "SetIndex"
    /\ hist.last.arg > Len(X.Actions) - 1
    /\ hist.last.idx = 0
    /\ hist.last.flow = FlowIdle
    /\ Len(X.Actions) > 1
    /\ X.index = Len(X.Actions) - 1

\* C14: after the poll of a NewSetIndex(i) action in an active Block, the action the
\* Block polls next is the one at i clamped into the list, and the Block is active;
\* also when i is the index of the NewSetIndex action itself (NewLoop: i = 0).
C14_SetIndexPolledNext ==
    (Polled /\ hist.last.api = "SetIndex" /\ hist.last.flow = FlowNext /\ hist.last.act) =>
        /\ X.index = Nearest(hist.last.arg, Len(X.Actions))
        /\ X.active

\* C15: JumpTo(label) on a Block with an action whose ID is label returns the smallest
\* index of such an action and leaves the Block at that index: from every state and for
\* every label, and in the state after every JumpTo the caller made.
C15_FirstLabelWins ==
    /\ \A k \in 1..Len(blocks) : \A l \in JumpLabels :
          LET M == LabelMatches(blocks[k], l)
              r == JumpToResult(blocks[k], l)
          IN M # {} =>
                /\ r \in M
                /\ \A j \in M : r <= j
                /\ JumpTo(St(blocks, <<>>), k, l).Blocks[k].index = r
    /\ (hist.jump.label # "none" /\ LabelMatches(X, hist.jump.label) # {}) =>
          /\ hist.jump.ret \in LabelMatches(X, hist.jump.label)
          /\ \A j \in LabelMatches(X, hist.jump.label) : hist.jump.ret <= j
          /\ X.index = hist.jump.ret

\* The caller's JumpTo on a Block whose actions 0 and 1 both carry the label moved it
\* (from index 1) to index 0, which was Init'd.
C15_Witness ==
    /\ hist.jump.label = "a"
    /\ {0, 1} \subseteq LabelMatches(X, "a")
    /\ initLog = <<<<Watched, 0>>>>
    /\ hist.jump.ret = 0
    /\ X.index = 0

\* C16: JumpTo with a label that no action of the Block carries returns -1, calls no
\* Init and leaves the Block as it is (from every state, and in the state after every
\* such JumpTo the caller made); a Poll that makes such a JumpTo and returns FlowNext,
\* as NewJumpTo does, is followed by the plain advance to the following action.
C16_UnknownLabelNoOp ==
    /\ \A k \in 1..Len(blocks) : \A l \in JumpLabels :
          LabelMatches(blocks[k], l) = {} =>
              /\ JumpToResult(blocks[k], l) = -1
              /\ JumpTo(St(blocks, <<>>), k, l) = St(blocks, <<>>)
    /\ (hist.jump.label # "none" /\ LabelMatches(X, hist.jump.label) = {}) =>
          /\ hist.jump.ret = -1
          /\ X = hist.jump.pre
          /\ initLog = <<>>
    /\ (/\ Polled
        /\ hist.last.api = "JumpTo"
        /\ LabelMatches(X, hist.last.label) = {}
        /\ hist.last.flow = FlowNext) =>
          /\ ~hist.last.moved
          /\ IF hist.last.idx + 1 <= Len(X.Actions) - 1
             THEN X.index = hist.last.idx + 1 /\ X.active = hist.last.act
             ELSE X.index = 0 /\ ~X.active
          /\ initLog = <<<<Watched, X.index>>>>

\* A Poll at index 0 made a JumpTo with a label the Block does not have and returned
\* FlowNext: the Block is at index 1.
C16_Witness ==
    /\ Polled
    /\ hist.last.api = "JumpTo"
    /\ hist.last.label = "b"
    /\ hist.last.flow = FlowNext
    /\ hist.last.idx = 0
    /\ X.index = 1

\* C17: after any sequence of Define calls no two Blocks of the Routine have the same
\* ID; BlockByID(id) is the Block allocated by the latest Define(id) (nil when there was
\* none), new as Define leaves it right after that Define; no Block of an earlier Define
\* is among the Blocks, so that none is at the cursor of an Update.
C17_LatestDefineOnly ==
    /\ \A j, k \in 1..Len(blocks) : blocks[j].ID = blocks[k].ID => j = k
    /\ \A id \in BlockIDs :
          IF hist.defs[id] = 0 THEN BlockByID(blocks, id) = NoBlock
          ELSE BlockByID(blocks, id).ID = id /\ BlockByID(blocks, id).gen = hist.defs[id]
    /\ \A k \in 1..Len(blocks) : blocks[k].gen = hist.defs[blocks[k].ID]
    /\ hist.def.id # "none" =>
          /\ BlockByID(blocks, hist.def.id).index = 0
          /\ ~BlockByID(blocks, hist.def.id).active

\* An Update is stepping the Block of the second Define of its ID, which was made when
\* another Block had been defined after the first.
C17_Witness ==
    /\ cursor > 0
    /\ blocks[cursor].ID = Watched
    /\ blocks[cursor].gen = 2
    /\ hist.defs[Watched] = 2
    /\ Len(blocks) = 2

\* C18: no Block without actions is ever among the Blocks of the Routine, and no
\* GateOption without actions is made of the actions a Define was called with.
C18_NoEmptyList ==
    /\ \A k \in 1..Len(blocks) : Len(blocks[k].Actions) > 0
    /\ hist.def.id # "none" => Len(NewGateOption("nil", hist.def.Actions).actions) > 0

\* What an action handed to Define takes up in the Block: a Collection as many
\* places as it has actions, any other action one.
Places(a) == IF a.kind = "Collection" THEN a.actions ELSE <<a>>

\* The places taken up by the first n of the actions args.
RECURSIVE PlacesBefore(_, _)
PlacesBefore(args, n) ==
    IF n = 0 THEN 0 ELSE PlacesBefore(args, n - 1) + Len(Places(args[n]))

\* C19: the Block Define has just made holds, for each action it was called with and
\* in their order, the action itself or, in place of a Collection, the actions of the
\* Collection in their order, and nothing else.
C19_CollectionSpliced ==
    hist.def.id # "none" =>
        LET args == hist.def.Actions
            b == BlockByID(blocks, hist.def.id)
        IN /\ Len(b.Actions) = PlacesBefore(args, Len(args))
           /\ \A i \in 1..Len(args) : \A j \in 1..Len(Places(args[i])) :
                 b.Actions[PlacesBefore(args, i - 1) + j] = Places(args[i])[j]

\* Define(id, A, Collection(B, C), D) has just made a Block of the actions A, B, C, D.
C19_Witness ==
    /\ hist.def.id = Watched
    /\ Len(hist.def.Actions) = 3
    /\ hist.def.Actions[1].kind # "Collection"
    /\ hist.def.Actions[2].kind = "Collection"
    /\ Len(hist.def.Actions[2].actions) = 2
    /\ hist.def.Actions[3].kind # "Collection"
    /\ X.Actions = <<hist.def.Actions[1], hist.def.Actions[2].actions[1],
                     hist.def.Actions[2].actions[2], hist.def.Actions[3]>>

\* C20: no action of a Block of the Routine is a Collection, and no action of the
\* GateOption made of the actions a Define was called with is one.
C20_NoCollectionLeft ==
    /\ \A k \in 1..Len(blocks) : \A i \in 1..Len(blocks[k].Actions) :
          blocks[k].Actions[i].kind # "Collection"
    /\ hist.def.id # "none" =>
          \A i \in 1..Len(NewGateOption("nil", hist.def.Actions).actions) :
              NewGateOption("nil", hist.def.Actions).actions[i].kind # "Collection"

\* The last step polled the Wait of the Block, whose Init had run (at hist.last.t0).
WaitPolled ==
    /\ Polled
    /\ KindAt(X, hist.last.idx) = "Wait"
    /\ hist.last.t0 # -1

\* C21 (as stated): a Poll of a Wait(D) whose Init ran at T0 returns Idle at every
\* time before T0 + D and Advance at T0 + D and at every later time.
C21_AdvanceAtDeadline ==
    WaitPolled =>
        hist.last.flow = IF hist.last.at >= hist.last.t0 + hist.last.dur
                         THEN FlowNext ELSE FlowIdle

\* C21 (amended): a Poll of a Wait(D) whose Init ran at T0 returns Idle at every time
\* up to and including T0 + D and Advance at every time after T0 + D.
C21_AdvanceAfterDeadline ==
    WaitPolled =>
        hist.last.flow = IF hist.last.at > hist.last.t0 + hist.last.dur
                         THEN FlowNext ELSE FlowIdle

\* A Wait polled at exactly T0 + D, with D > 0: it idles.
C21_Witness ==
    /\ WaitPolled
    /\ hist.last.dur > 0
    /\ hist.last.at = hist.last.t0 + hist.last.dur
    /\ hist.last.flow = FlowIdle

\* The Block of the scenario was polled: a Function, a Wait of 2 and a Function.
ScenarioBlock ==
    /\ Polled
    /\ Len(X.Actions) = 3
    /\ KindAt(X, 0) = "Function" /\ KindAt(X, 2) = "Function"
    /\ KindAt(X, 1) = "Wait" /\ X.Actions[2].Duration = 2

\* The scenario: its first Function had returned FlowNext at time 0, where the Init
\* of the Wait ran.
Scenario == ScenarioBlock /\ hist.last.t0 = 0

\* C22 (as stated): in the scenario the Wait idles at the times below 2 and at the
\* first Update at a time >= 2 it returns FlowNext, so that the last Function is
\* polled in that Update.
C22_SecondPrintAtTwo ==
    Scenario /\ hist.last.idx = 1 =>
        hist.last.flow = IF hist.last.at >= 2 THEN FlowNext ELSE FlowIdle

\* C22 (amended): the poll of the first Function that returns FlowNext makes the
\* Wait current with its deadline 2 after that poll; in the scenario the Wait idles
\* at the times up to and including 2 and returns FlowNext after 2; the last Function
\* is polled only after 2, and its FlowFinish leaves the Block inactive at index 0.
C22_SecondPrintAfterTwo ==
    /\ Scenario /\ hist.last.idx = 1 =>
          hist.last.flow = IF hist.last.at > 2 THEN FlowNext ELSE FlowIdle
    /\ Scenario /\ hist.last.idx = 2 => hist.last.at > 2
    /\ Scenario /\ hist.last.idx = 2 /\ hist.last.flow = FlowFinish =>
          ~X.active /\ X.index = 0
    /\ ScenarioBlock /\ hist.last.idx = 0 /\ hist.last.flow = FlowNext /\ hist.last.act =>
          /\ hist.t0 = hist.last.at
          /\ X.index = 1
          /\ X.Actions[2].targetTime = hist.last.at + 2

\* The last Function of the scenario is polled at time 3 and returns FlowFinish.
C22_Witness ==
    /\ Scenario
    /\ hist.last.idx = 2
    /\ hist.last.flow = FlowFinish
    /\ hist.last.at = 3
    /\ ~X.active

\* The last step polled the Gate of the Block watched.
GatePolled == Polled /\ KindAt(X, hist.last.idx) = "Gate"
\* The Gate of the Block watched (there is one).
TheGate == X.Actions[CHOOSE i \in 1..Len(X.Actions) : X.Actions[i].kind = "Gate"]

\* C23: a poll of a Gate that has an entry active calls no CheckFunc, whatever the
\* CheckFuncs would return, and leaves that entry the active one.
C23_NoCheckOnceCommitted ==
    GatePolled /\ hist.gp.pre # 0 =>
        /\ hist.gp.evald = {}
        /\ hist.gp.post = hist.gp.pre

\* A poll of a Gate whose active entry has a CheckFunc that returns FALSE by now: the
\* entry's nested action is polled.
C23_Witness ==
    /\ GatePolled
    /\ hist.gp.pre # 0
    /\ TheGate.Options[hist.gp.pre].CheckFunc = "func"
    /\ ~hist.gp.truth[hist.gp.pre]
    /\ hist.gp.o = hist.gp.pre

\* The entries of the Gate that match under truth.
Matching(c, truth) ==
    {o \in 1..Len(c.Options) : c.Options[o].CheckFunc = "nil" \/ truth[o]}
\* The least of a set of numbers, 0 for the empty set.
Least(S) == IF S = {} THEN 0 ELSE CHOOSE o \in S : \A p \in S : o <= p

\* C24: a poll of a Gate with no entry active makes the first entry active, in the
\* order of Options, whose CheckFunc is nil or returns TRUE (none if there is none),
\* and calls the CheckFuncs of the entries up to that one only.
C24_FirstMatchWins ==
    GatePolled /\ hist.gp.pre = 0 =>
        /\ hist.gp.post = Least(Matching(TheGate, hist.gp.truth))
        /\ hist.gp.evald =
              {o \in 1..Len(TheGate.Options) :
                  /\ TheGate.Options[o].CheckFunc = "func"
                  /\ hist.gp.post # 0 => o <= hist.gp.post}

\* An entry without a CheckFunc stands before one whose CheckFunc returns TRUE: the
\* first is made active and no CheckFunc is called.
C24_Witness ==
    /\ GatePolled
    /\ hist.gp.pre = 0
    /\ Len(TheGate.Options) = 2
    /\ TheGate.Options[1].CheckFunc = "nil"
    /\ TheGate.Options[2].CheckFunc = "func"
    /\ hist.gp.truth[2]
    /\ hist.gp.post = 1
    /\ hist.gp.evald = {}

\* C25: once Gate.Init has run (again), the Gate has no entry active until its next
\* poll makes one active, and the first nested action polled of that entry is its
\* action 0, on which Init has been called since it was last polled.
C25_ReentryStartsAtFirst ==
    /\ Watched \in Defined(blocks) /\ hist.g.init => TheGate.ActiveEntry = 0
    /\ GatePolled /\ hist.gp.first /\ hist.gp.viaInit =>
          /\ hist.gp.j = 0
          /\ hist.gp.fresh

\* The last step polled the Gate with an entry active, and the entry polled its
\* last nested action, which returned FlowNext.
LastAdvanced ==
    /\ GatePolled
    /\ hist.gp.o # 0
    /\ hist.gp.j = Len(TheGate.Options[hist.gp.o].actions) - 1
    /\ hist.gp.result = FlowNext

\* C26: the poll of a Gate in which the last nested action of the active entry returns
\* FlowNext returns FlowNext; any other poll of a Gate with an entry active that polls a
\* nested action returns FlowFinish if that action does and FlowIdle otherwise; and a
\* Gate whose entry has returned FlowNext has no entry active whenever it is the
\* Block's current action, and when it is polled, until that poll makes one active.
C26_AdvanceAtEndOfOption ==
    /\ LastAdvanced => hist.last.flow = FlowNext
    /\ GatePolled /\ hist.gp.o # 0 /\ ~LastAdvanced =>
          hist.last.flow = IF hist.gp.result = FlowFinish THEN FlowFinish ELSE FlowIdle
    /\ GatePolled /\ hist.gp.spent => hist.gp.pre = 0
    /\ Watched \in Defined(blocks) /\ hist.g.spent /\ KindAt(X, X.index) = "Gate" =>
          TheGate.ActiveEntry = 0

\* The second of two nested actions returns FlowNext, the Gate being the only action
\* of the Block: Gate.Poll returns FlowNext and the Gate, current again, has no entry
\* active.
C26_Witness ==
    /\ LastAdvanced
    /\ hist.gp.j = 1
    /\ hist.last.flow = FlowNext
    /\ Len(X.Actions) = 1
    /\ TheGate.ActiveEntry = 0

\* C27: the poll of a Gate that makes an entry active calls onChoose once, polls no
\* nested action and returns FlowIdle; a poll of a Gate with an entry active does not
\* call onChoose; and the first nested action polled after that, in a later Update,
\* is action 0 of the entry.
C27_ChooseThenFirstAction ==
    /\ GatePolled /\ hist.gp.pre = 0 /\ hist.gp.post # 0 =>
          /\ hist.gp.choose = 1
          /\ hist.gp.o = 0
          /\ hist.last.flow = FlowIdle
    /\ GatePolled /\ hist.gp.pre # 0 => hist.gp.choose = 0
    /\ GatePolled /\ hist.gp.first =>
          /\ hist.gp.pre # 0
          /\ hist.last.n = 1
          /\ hist.gp.j = 0

\* The last call on the Timing was a Poll.
TimingPolled == hist.tp.pre # -1

\* C28: a Poll of a Timing calls the Function of the pair at its index, and of no
\* other, if and only if the time is after the pair's target time; the Functions called
\* in a pass are those of the pairs 0, 1, ... in this order, each once; the Poll that
\* calls the Function of the last pair returns FlowNext and leaves the index 0, every
\* other Poll returns FlowIdle.
C28_TimingInOrder ==
    /\ timing # NoTiming =>
          hist.calls = [k \in 1..timing.index |-> k - 1]
    /\ TimingPolled =>
          /\ hist.tp.called = IF hist.tp.at > hist.tp.target THEN hist.tp.pre ELSE -1
          /\ hist.tp.calls =
                [k \in 1..(IF hist.tp.called = -1 THEN hist.tp.pre ELSE hist.tp.pre + 1)
                    |-> k - 1]
          /\ hist.tp.flow = IF hist.tp.called = Len(timing.pairs) - 1
                            THEN FlowNext ELSE FlowIdle
          /\ hist.tp.flow = FlowNext => timing.index = 0

\* The Poll that calls the Function of the second of two pairs, after its target time,
\* which is later than the time of the pair's first Poll.
C28_Witness ==
    /\ TimingPolled
    /\ Len(timing.pairs) = 2
    /\ timing.pairs[2].Duration > 0
    /\ hist.tp.calls = <<0, 1>>
    /\ hist.tp.flow = FlowNext
    /\ timing.index = 0

\* C29: after the step of the Block watched in which it polled NewSwitchBlock(ids...),
\* with at least one ID, the active Blocks are those whose ID is among ids.
C29_OnlyNamedActive ==
    Polled /\ hist.last.flow = FlowNext /\ hist.api.op = "Switch" /\ hist.api.ids # {} =>
        \A k \in 1..Len(blocks) : blocks[k].active <=> blocks[k].ID \in hist.api.ids

\* C30: Routine.Restart with the IDs ids, called in any state, leaves every Block it
\* names (every Block when ids is empty) at index 0 with active and currentlyActive as
\* they were, having called Init on its action 0 once, and leaves the other Blocks as
\* they were; so the Block watched is found after a Restart by the caller.
C30_RestartKeepsActivity ==
    /\ \A ids \in IdArgs :
          \E st \in {RoutineRestart(St(blocks, <<>>), ids)} :
             /\ Len(st.Blocks) = Len(blocks)
             /\ \A k \in 1..Len(blocks) :
                   IF blocks[k].ID \in Targets(blocks, ids)
                   THEN /\ st.Blocks[k].index = 0
                        /\ st.Blocks[k].active = blocks[k].active
                        /\ st.Blocks[k].currentlyActive = blocks[k].currentlyActive
                        /\ st.Blocks[k].Actions = blocks[k].Actions
                   ELSE st.Blocks[k] = blocks[k]
             /\ st.inits = IF Watched \in Targets(blocks, ids) /\ X.Actions # <<>>
                           THEN <<<<Watched, 0>>>> ELSE <<>>
    /\ hist.api.op = "Restart" /\ hist.api.index # -1 =>
          /\ X.index = 0
          /\ X.active = hist.api.active
          /\ X.currentlyActive = hist.api.currentlyActive
          /\ X.Actions # <<>> => InitCount(0) = 1

\* The caller has restarted the Block watched, which was active at index 0: it is
\* active at index 0, and Init has been called on its action 0.
C30_Witness ==
    /\ hist.api.op = "Restart"
    /\ hist.api.ids = {Watched}
    /\ hist.api.index = 0
    /\ hist.api.active
    /\ X.index = 0
    /\ X.active
    /\ InitCount(0) = 1

C33_PolledInDefineOrder ==
    \A i, j \in DOMAIN hist.seen :
        i < j =>
          \E m, n \in DOMAIN hist.order :
             m < n /\ hist.order[m] = hist.seen[i] /\ hist.order[n] = hist.seen[j]

\* Both Blocks have been polled in an Update, the Block watched, defined again after
\* the other, last.
C33_Witness ==
    /\ hist.seen = <<"y", Watched>> /\ hist.order = hist.seen
\* C34: while the current action of the Block returns Idle and calls nothing, and no
\* call reaches the Block, the index stays where it was at the first of these polls
\* and the activity as it was then (active, from the second poll on), no Init is
\* called on the action, and after each of these polls the Block is not polled
\* again in the same Update: from the second on, the poll is the only one of the
\* Block in its Update.
C34_IdleStaysPut ==
    Watched \in Defined(blocks) /\ hist.idles >= 1 =>
        /\ X.index = hist.idleAt
        /\ X.active = hist.idleAct
        /\ hist.idles >= 2 => X.active
        /\ InitCount(hist.idleAt) = 0
        /\ Polled => /\ hist.last.idx = hist.idleAt
                     /\ cursor = 0 \/ blocks[cursor].ID # Watched
                     /\ hist.idles >= 2 => hist.last.n = 1

\* The action at index 1 has idled in MaxFrame + 1 Updates in a row.
C34_Witness ==
    /\ Polled /\ hist.idles = MaxFrame + 1 /\ hist.idleAt = 1 /\ Len(blocks) = 2

\* C35: at every poll currentFrame is the number of polls of the current action made
\* since the playhead last got to it by an Advance, a Finish, a SetIndex / JumpTo
\* that moved it, a Restart, a Stop or a Switch: 0 at the first, one more at each
\* poll after it.
C35_FrameCountsPolls ==
    /\ Polled => hist.frame = hist.before
    /\ Watched \in Defined(blocks) => X.currentFrame = hist.cnt

\* The action at index 1 is polled a second time, with currentFrame 1.
C35_Witness ==
    /\ Polled /\ hist.last.idx = 1 /\ hist.frame = 1 /\ hist.before = 1
\* C36: the polls of a Block within one Update are bounded, whatever its actions
\* call, when all of them return Advance: update is not called again on a Block at
\* an action it has polled in the same Update (from where, that action and those
\* after it returning Advance as before, it would poll them again without end).
C36_NoActionPolledTwice ==
    PolledNext => X.index \notin hist.visited
\* C37: once a Stop has reached a Block, whoever made it and whenever, the Block is
\* not polled until a Run reaches it, and from the end of the Update running at the
\* Stop until then its index is 0.
C37_StoppedNotPolled ==
    Watched \in Defined(blocks) =>
        /\ ~hist.stopPoll
        /\ hist.stopd /\ Idle => X.index = 0
C39_NestedFinishEndsBlock ==
    GatePolled /\ hist.gp.o # 0 /\ hist.gp.result = FlowFinish =>
        /\ hist.last.flow = FlowFinish
        /\ ~X.active /\ ~X.currentlyActive /\ X.index = 0
        /\ ~PolledNext
        /\ InitCount(0) = 1 /\ Len(initLog) = 1
        /\ TheGate.Options[hist.gp.o].Index = hist.gp.j
        /\ TheGate.ActiveEntry = IF KindAt(X, 0) = "Gate" THEN 0 ELSE hist.gp.o

\* The second nested action of the active entry of a Gate at index 1 returns
\* FlowFinish: the Block is inactive at index 0.
C39_Witness ==
    /\ GatePolled /\ hist.gp.result = FlowFinish /\ hist.gp.j = 1
    /\ hist.last.idx = 1 /\ ~X.active /\ X.index = 0
\* C40: in a pass of a Timing made after a pass has been completed, the Function of
\* a pair is not called by a Poll made earlier than the pair's Duration after the
\* first Poll of that pair in the pass.
C40_WaitsInEveryPass ==
    TimingPolled /\ hist.tp.again /\ hist.tp.called # -1 =>
        hist.tp.at >= hist.tp.first + hist.tp.dur
====
